---- MODULE Spec2Model ----
(***************************************************************************)
(* Verification model of the rag-core-library ingestion orchestrator and   *)
(* of its versioned vector-collection manager.                             *)
(*                                                                         *)
(* The state machines of this module:                                      *)
(*   Spec       the admin side: upload_source / upload of a file /         *)
(*              Confluence load, their background pipelines and the        *)
(*              status key-value store;                                    *)
(*   StoreSpec  the RAG side: QdrantDatabase (upload, delete, duplicate,   *)
(*              switch, eviction, reads) over the vector store, with       *)
(*              requests that overlap;                                     *)
(*   SerialStoreSpec  the RAG side with requests served one at a time.     *)
(***************************************************************************)
EXTENDS Naturals, Integers, Sequences, FiniteSets, TLC

(***************************************************************************)
(* Bounds                                                                  *)
(***************************************************************************)
NumOps == 2

Ops == 1..NumOps

\* source names that upload_source / the file upload address
UploadSources == {"web:x"}
\* the single configured Confluence document name
ConfSource == "confluence-space"
SourceNames == UploadSources \cup {ConfSource}

VARIABLES
  \* ---- admin side ----
  status,     \* FileStatusKeyValueStore: source_name -> Status ("NONE" = no entry)
  kind,       \* per operation: "none" | "source" | "file" | "confluence"
  src,        \* per operation: its source_name
  hpc,        \* per operation: position of the request handler
  tpc,        \* per operation: position of the background pipeline
  stop,       \* per operation: stop_event.is_set()
  writes,     \* per operation: the upserts it made, in order
  uploadOk,   \* per operation: rag_api.upload_information_piece returned
  vsCalls,    \* per operation: vector-store calls issued by its pipeline
  pieces,     \* per operation: information_pieces as the extractor returned them
  mapped,     \* per operation: extractor_information_piece2document was called
  \* ---- RAG side ----
  collections,  \* the snapshots in the vector store, named by their timestamp suffix
  points,       \* per snapshot: the documents (metadata.document) it holds
  aliases,      \* the snapshots the alias collection_name is bound to
  now,          \* create_timestamp(): the wall clock in seconds
  historyCount, \* VectorDatabaseSettings.collection_history_count
  vsName,       \* self._vectorstore.collection_name of the shared QdrantDatabase
  rpc,          \* per worker: position of the request it is serving
  rl,           \* per worker: the locals of that request
  everUploaded, \* an upload has completed, alias included
  \* ---- functions checked on their own ----
  fn,           \* the function that has been applied ("none" before the call)
  args,         \* the arguments it is applied to
  result,       \* what it returned or raised
  \* ---- the chat endpoint ----
  cpc,          \* per request: position of the endpoint coroutine
  task,         \* per request: the state of disconnect_task and of chat_task
  done,         \* per request: the set `done` that asyncio.wait returned
  response      \* per request: what the endpoint returned

adminVars == <<status, kind, src, hpc, tpc, stop, writes, uploadOk, vsCalls,
               pieces, mapped>>

storeVars == <<collections, points, aliases, now, historyCount, vsName, rpc, rl,
               everUploaded>>

vars == <<status, kind, src, hpc, tpc, stop, writes, uploadOk, vsCalls,
          pieces, mapped,
          collections, points, aliases, now, historyCount, vsName, rpc, rl,
          everUploaded, fn, args, result, cpc, task, done, response>>

callVars == <<fn, args, result>>

chatVars == <<cpc, task, done, response>>

(***************************************************************************)
(* Status store                                                            *)
(***************************************************************************)
Terminal == {"READY", "ERROR"}

\* key_value_store.upsert(source_name, st) issued by `who` of operation o
Upsert(o, s, who, st) ==
  /\ status' = [status EXCEPT ![s] = st]
  /\ writes' = [writes EXCEPT ![o] = Append(@, [by |-> who, st |-> st])]

NoUpsert ==
  /\ UNCHANGED status
  /\ UNCHANGED writes

\* DefaultSourceUploader._check_if_already_in_processing: TRUE when it raises
_check_if_already_in_processing(s) == status[s] = "PROCESSING"

\* operations are numbered in the order their requests arrive
NextOp(o) ==
  /\ kind[o] = "none"
  /\ \A p \in Ops : p < o => kind[p] # "none"

(***************************************************************************)
(* DefaultSourceUploader.upload_source: the request handler                *)
(***************************************************************************)
\* lines 83-109 run without suspension on the event loop: check, PROCESSING,
\* submit of the pipeline; the ValueError branch is lines 120-124
upload_source(o, s) ==
  /\ NextOp(o)
  /\ kind' = [kind EXCEPT ![o] = "source"]
  /\ src' = [src EXCEPT ![o] = s]
  /\ IF _check_if_already_in_processing(s)
       THEN /\ Upsert(o, s, "handler", "ERROR")
            /\ hpc' = [hpc EXCEPT ![o] = "rejected"]
            /\ UNCHANGED tpc
       ELSE /\ Upsert(o, s, "handler", "PROCESSING")
            /\ hpc' = [hpc EXCEPT ![o] = "waiting"]
            /\ tpc' = [tpc EXCEPT ![o] = "extract"]
  /\ UNCHANGED <<stop, uploadOk, vsCalls>>
  /\ UNCHANGED <<pieces, mapped>>
  /\ UNCHANGED storeVars
  /\ UNCHANGED callVars
  /\ UNCHANGED chatVars

\* asyncio.wait_for returns because the future is done
wait_returns(o) ==
  /\ kind[o] = "source"
  /\ hpc[o] = "waiting"
  /\ tpc[o] = "done"
  /\ hpc' = [hpc EXCEPT ![o] = "returned"]
  /\ UNCHANGED <<status, kind, src, tpc, stop, writes, uploadOk, vsCalls>>
  /\ UNCHANGED <<pieces, mapped>>
  /\ UNCHANGED storeVars
  /\ UNCHANGED callVars
  /\ UNCHANGED chatVars

\* asyncio.TimeoutError: line 116, the ERROR upsert
wait_timeout(o) ==
  /\ kind[o] = "source"
  /\ hpc[o] = "waiting"
  /\ tpc[o] # "done"
  /\ Upsert(o, src[o], "handler", "ERROR")
  /\ hpc' = [hpc EXCEPT ![o] = "signal"]
  /\ UNCHANGED <<kind, src, tpc, stop, uploadOk, vsCalls>>
  /\ UNCHANGED <<pieces, mapped>>
  /\ UNCHANGED storeVars
  /\ UNCHANGED callVars
  /\ UNCHANGED chatVars

\* line 117, stop_event.set(); the handler then returns without awaiting
signal_stop(o) ==
  /\ kind[o] = "source"
  /\ hpc[o] = "signal"
  /\ stop' = [stop EXCEPT ![o] = TRUE]
  /\ hpc' = [hpc EXCEPT ![o] = "returned"]
  /\ UNCHANGED <<status, kind, src, tpc, writes, uploadOk, vsCalls>>
  /\ UNCHANGED <<pieces, mapped>>
  /\ UNCHANGED storeVars
  /\ UNCHANGED callVars
  /\ UNCHANGED chatVars

(***************************************************************************)
(* DefaultSourceUploader._handle_source_upload: the background pipeline    *)
(***************************************************************************)
Goto(o, pc) == tpc' = [tpc EXCEPT ![o] = pc]

\* lines 183-194: extraction; an empty result writes ERROR and returns
extract(o) ==
  /\ kind[o] = "source"
  /\ tpc[o] = "extract"
  /\ \E outcome \in {"pieces", "empty", "raise"} :
       /\ pieces' = [pieces EXCEPT ![o] = IF outcome = "raise" THEN @
                                          ELSE IF outcome = "pieces" THEN "some" ELSE "empty"]
       /\ CASE outcome = "pieces" -> NoUpsert /\ Goto(o, "map")
            [] outcome = "empty"  -> Upsert(o, src[o], "task", "ERROR") /\ Goto(o, "ret")
            [] outcome = "raise"  -> NoUpsert /\ Goto(o, "except")
  /\ UNCHANGED <<kind, src, hpc, stop, uploadOk, vsCalls>>
  /\ UNCHANGED mapped
  /\ UNCHANGED storeVars
  /\ UNCHANGED callVars
  /\ UNCHANGED chatVars

\* the stages that touch no shared state, each entered through
\* _ensure_not_cancelled: map (195-198), chunk (200-201), enhance (203-204),
\* map to rag pieces (206-211)
StageAfter(pc) ==
  CASE pc = "map"     -> "chunk"
    [] pc = "chunk"   -> "enhance"
    [] pc = "enhance" -> "torag"
    [] pc = "torag"   -> "chk5"

stage(o) ==
  /\ kind[o] = "source"
  /\ tpc[o] \in {"map", "chunk", "enhance", "torag"}
  /\ IF stop[o]
       THEN Upsert(o, src[o], "task", "ERROR") /\ Goto(o, "ret")
       ELSE /\ NoUpsert
            /\ \E raised \in BOOLEAN :
                 Goto(o, IF raised THEN "except" ELSE StageAfter(tpc[o]))
  /\ mapped' = [mapped EXCEPT ![o] = @ \/ (tpc[o] = "map" /\ ~stop[o])]
  /\ UNCHANGED <<kind, src, hpc, stop, uploadOk, vsCalls>>
  /\ UNCHANGED pieces
  /\ UNCHANGED storeVars
  /\ UNCHANGED callVars
  /\ UNCHANGED chatVars

\* line 213: the last _ensure_not_cancelled
last_checkpoint(o) ==
  /\ kind[o] = "source"
  /\ tpc[o] = "chk5"
  /\ IF stop[o]
       THEN Upsert(o, src[o], "task", "ERROR") /\ Goto(o, "ret")
       ELSE NoUpsert /\ Goto(o, "delete")
  /\ UNCHANGED <<kind, src, hpc, stop, uploadOk, vsCalls>>
  /\ UNCHANGED <<pieces, mapped>>
  /\ UNCHANGED storeVars
  /\ UNCHANGED callVars
  /\ UNCHANGED chatVars

\* document_deleter.adelete_document returns, raises an HTTPException or
\* raises another exception
DeleteOutcomes == {"ok", "http", "other"}

VsCall(o, call) ==
  vsCalls' = [vsCalls EXCEPT ![o] = Append(@, [call |-> call, signalled |-> stop[o]])]

\* lines 214-215: best-effort delete of the prior version under
\* suppress(Exception)
delete_prior(o) ==
  /\ kind[o] = "source"
  /\ tpc[o] = "delete"
  /\ VsCall(o, "delete")
  /\ \E outcome \in DeleteOutcomes : Goto(o, "upload")
  /\ UNCHANGED <<status, kind, src, hpc, stop, writes, uploadOk>>
  /\ UNCHANGED <<pieces, mapped>>
  /\ UNCHANGED storeVars
  /\ UNCHANGED callVars
  /\ UNCHANGED chatVars

\* line 217 as it would be if a failed upload were ignored
upload_pieces_ignoring_failure(o) ==
  /\ kind[o] = "source"
  /\ tpc[o] = "upload"
  /\ \E ok \in BOOLEAN :
       /\ VsCall(o, "upload")
       /\ uploadOk' = [uploadOk EXCEPT ![o] = ok]
       /\ Goto(o, "ready")
  /\ UNCHANGED <<status, kind, src, hpc, stop, writes>>
  /\ UNCHANGED <<pieces, mapped>>
  /\ UNCHANGED storeVars
  /\ UNCHANGED callVars
  /\ UNCHANGED chatVars

\* line 217: rag_api.upload_information_piece
upload_pieces(o) ==
  /\ kind[o] = "source"
  /\ tpc[o] = "upload"
  /\ \E ok \in BOOLEAN :
       /\ VsCall(o, "upload")
       /\ uploadOk' = [uploadOk EXCEPT ![o] = ok]
       /\ Goto(o, IF ok THEN "ready" ELSE "except")
  /\ UNCHANGED <<status, kind, src, hpc, stop, writes>>
  /\ UNCHANGED <<pieces, mapped>>
  /\ UNCHANGED storeVars
  /\ UNCHANGED callVars
  /\ UNCHANGED chatVars

\* line 219
write_ready(o) ==
  /\ kind[o] = "source"
  /\ tpc[o] = "ready"
  /\ Upsert(o, src[o], "task", "READY")
  /\ Goto(o, "ret")
  /\ UNCHANGED <<kind, src, hpc, stop, uploadOk, vsCalls>>
  /\ UNCHANGED <<pieces, mapped>>
  /\ UNCHANGED storeVars
  /\ UNCHANGED callVars
  /\ UNCHANGED chatVars

\* lines 225-231: the generic except handler
handle_exception(o) ==
  /\ kind[o] = "source"
  /\ tpc[o] = "except"
  /\ IF stop[o] THEN NoUpsert ELSE Upsert(o, src[o], "task", "ERROR")
  /\ Goto(o, "ret")
  /\ UNCHANGED <<kind, src, hpc, stop, uploadOk, vsCalls>>
  /\ UNCHANGED <<pieces, mapped>>
  /\ UNCHANGED storeVars
  /\ UNCHANGED callVars
  /\ UNCHANGED chatVars

\* the worker thread returns and the future becomes done
task_return(o) ==
  /\ kind[o] # "none"
  /\ tpc[o] = "ret"
  /\ Goto(o, "done")
  /\ UNCHANGED <<status, kind, src, hpc, stop, writes, uploadOk, vsCalls>>
  /\ UNCHANGED <<pieces, mapped>>
  /\ UNCHANGED storeVars
  /\ UNCHANGED callVars
  /\ UNCHANGED chatVars

(***************************************************************************)
(* DefaultFileUploader: request handler and background pipeline            *)
(***************************************************************************)
\* upload_source, lines 58-74: PROCESSING is upserted without a check (the
\* check is a TODO, line 65); _asave_new_document (134-152) reads
\* self._file_service, which __init__ (34-51) never assigns, so its except
\* branch upserts ERROR and it returns None; the thread is started regardless
upload_file(o, s) ==
  /\ NextOp(o)
  /\ kind' = [kind EXCEPT ![o] = "file"]
  /\ src' = [src EXCEPT ![o] = s]
  /\ status' = [status EXCEPT ![s] = "ERROR"]
  /\ writes' = [writes EXCEPT ![o] =
       <<[by |-> "handler", st |-> "PROCESSING"], [by |-> "handler", st |-> "ERROR"]>>]
  /\ hpc' = [hpc EXCEPT ![o] = "returned"]
  /\ tpc' = [tpc EXCEPT ![o] = "fextract"]
  /\ UNCHANGED <<stop, uploadOk, vsCalls>>
  /\ UNCHANGED <<pieces, mapped>>
  /\ UNCHANGED storeVars
  /\ UNCHANGED callVars
  /\ UNCHANGED chatVars

\* _handle_source_upload, lines 91-95: an empty extraction upserts ERROR and
\* the pipeline goes on (no return); an exception reaches line 116
file_extract(o) ==
  /\ kind[o] = "file"
  /\ tpc[o] = "fextract"
  /\ \E outcome \in {"pieces", "empty", "raise"} :
       /\ pieces' = [pieces EXCEPT ![o] = IF outcome = "raise" THEN @
                                          ELSE IF outcome = "pieces" THEN "some" ELSE "empty"]
       /\ CASE outcome = "pieces" -> NoUpsert /\ Goto(o, "fprocess")
            [] outcome = "empty"  -> Upsert(o, src[o], "task", "ERROR") /\ Goto(o, "fprocess")
            [] outcome = "raise"  -> Upsert(o, src[o], "task", "ERROR") /\ Goto(o, "ret")
  /\ UNCHANGED <<kind, src, hpc, stop, uploadOk, vsCalls>>
  /\ UNCHANGED mapped
  /\ UNCHANGED storeVars
  /\ UNCHANGED callVars
  /\ UNCHANGED chatVars

\* lines 96-100: map (one mapper call per extracted piece), chunk, enhance
file_process(o) ==
  /\ kind[o] = "file"
  /\ tpc[o] = "fprocess"
  /\ mapped' = [mapped EXCEPT ![o] = pieces[o] = "some"]
  /\ \E raised \in BOOLEAN :
       IF raised THEN Upsert(o, src[o], "task", "ERROR") /\ Goto(o, "ret")
                 ELSE NoUpsert /\ Goto(o, "faddurl")
  /\ UNCHANGED <<kind, src, hpc, stop, uploadOk, vsCalls>>
  /\ UNCHANGED pieces
  /\ UNCHANGED storeVars
  /\ UNCHANGED callVars
  /\ UNCHANGED chatVars

\* line 101: _add_file_url is handed the file name (a str) and evaluates
\* file.name (line 122) before its loop: AttributeError, caught at line 115
file_add_url(o) ==
  /\ kind[o] = "file"
  /\ tpc[o] = "faddurl"
  /\ Upsert(o, src[o], "task", "ERROR")
  /\ Goto(o, "ret")
  /\ UNCHANGED <<kind, src, hpc, stop, uploadOk, vsCalls>>
  /\ UNCHANGED <<pieces, mapped>>
  /\ UNCHANGED storeVars
  /\ UNCHANGED callVars
  /\ UNCHANGED chatVars

(***************************************************************************)
(* DefaultConfluenceLoader: one configured Confluence source               *)
(***************************************************************************)
\* the background thread of an earlier load is alive
ConfluenceAlive == \E p \in Ops : kind[p] = "confluence" /\ tpc[p] \notin {"none", "done"}

\* aload_from_confluence, lines 115-120: 423 while a load runs
aload_from_confluence(o) ==
  /\ NextOp(o)
  /\ kind' = [kind EXCEPT ![o] = "confluence"]
  /\ src' = [src EXCEPT ![o] = ConfSource]
  /\ IF ConfluenceAlive
       THEN hpc' = [hpc EXCEPT ![o] = "rejected"] /\ UNCHANGED tpc
       ELSE hpc' = [hpc EXCEPT ![o] = "returned"] /\ Goto(o, "cstart")
  /\ UNCHANGED <<status, stop, writes, uploadOk, vsCalls>>
  /\ UNCHANGED <<pieces, mapped>>
  /\ UNCHANGED storeVars
  /\ UNCHANGED callVars
  /\ UNCHANGED chatVars

\* process_confluence, line 129
confluence_start(o) ==
  /\ kind[o] = "confluence"
  /\ tpc[o] = "cstart"
  /\ Upsert(o, src[o], "task", "PROCESSING")
  /\ Goto(o, "cextract")
  /\ UNCHANGED <<kind, src, hpc, stop, uploadOk, vsCalls>>
  /\ UNCHANGED <<pieces, mapped>>
  /\ UNCHANGED storeVars
  /\ UNCHANGED callVars
  /\ UNCHANGED chatVars

\* lines 130-145: extract, map (one mapper call per piece), enhance, chunk;
\* any exception upserts ERROR and raises an HTTPException out of the
\* per-URL thread; an empty extraction is processed like any other
ConfluenceExtract(o, next, afterRaise) ==
  \E outcome \in {"pieces", "empty", "raise"}, raised \in BOOLEAN :
    /\ outcome = "raise" => raised
    /\ pieces' = [pieces EXCEPT ![o] = IF outcome = "raise" THEN @
                                       ELSE IF outcome = "pieces" THEN "some" ELSE "empty"]
    /\ mapped' = [mapped EXCEPT ![o] = outcome = "pieces"]
    /\ IF raised THEN Upsert(o, src[o], "task", "ERROR") /\ Goto(o, afterRaise)
                 ELSE NoUpsert /\ Goto(o, next)

confluence_extract(o) ==
  /\ kind[o] = "confluence"
  /\ tpc[o] = "cextract"
  /\ ConfluenceExtract(o, "cdelete", "ret")
  /\ UNCHANGED <<kind, src, hpc, stop, uploadOk, vsCalls>>
  /\ UNCHANGED storeVars
  /\ UNCHANGED callVars
  /\ UNCHANGED chatVars

\* lines 147-148 and 166-177: delete of the prior version; an HTTPException
\* is logged, any other exception ends the thread; then UPLOADING
confluence_delete(o) ==
  /\ kind[o] = "confluence"
  /\ tpc[o] = "cdelete"
  /\ VsCall(o, "delete")
  /\ \E outcome \in DeleteOutcomes :
       IF outcome = "other"
         THEN NoUpsert /\ Goto(o, "ret")
         ELSE Upsert(o, src[o], "task", "UPLOADING") /\ Goto(o, "cupload")
  /\ UNCHANGED <<kind, src, hpc, stop, uploadOk>>
  /\ UNCHANGED <<pieces, mapped>>
  /\ UNCHANGED storeVars
  /\ UNCHANGED callVars
  /\ UNCHANGED chatVars

\* lines 149 and 179-187: _upload_information_pieces
confluence_upload(o) ==
  /\ kind[o] = "confluence"
  /\ tpc[o] = "cupload"
  /\ \E ok \in BOOLEAN :
       /\ VsCall(o, "upload")
       /\ uploadOk' = [uploadOk EXCEPT ![o] = ok]
       /\ Upsert(o, src[o], "task", IF ok THEN "READY" ELSE "ERROR")
  /\ Goto(o, "ret")
  /\ UNCHANGED <<kind, src, hpc, stop>>
  /\ UNCHANGED <<pieces, mapped>>
  /\ UNCHANGED storeVars
  /\ UNCHANGED callVars
  /\ UNCHANGED chatVars

(***************************************************************************)
(* DefaultConfluenceUpdater (a ConfluenceHandler): the Confluence update    *)
(***************************************************************************)
\* the background thread of an earlier update is alive
UpdaterAlive == \E p \in Ops : kind[p] = "update" /\ tpc[p] \notin {"none", "done"}

\* aupdate_from_confluence, lines 108-113: 423 while an update runs; the
\* updater has a _background_thread of its own (line 86)
aupdate_from_confluence(o) ==
  /\ NextOp(o)
  /\ kind' = [kind EXCEPT ![o] = "update"]
  /\ src' = [src EXCEPT ![o] = ConfSource]
  /\ IF UpdaterAlive
       THEN hpc' = [hpc EXCEPT ![o] = "rejected"] /\ UNCHANGED tpc
       ELSE hpc' = [hpc EXCEPT ![o] = "returned"] /\ Goto(o, "ustart")
  /\ UNCHANGED <<status, stop, writes, uploadOk, vsCalls>>
  /\ UNCHANGED <<pieces, mapped>>
  /\ UNCHANGED storeVars
  /\ UNCHANGED callVars
  /\ UNCHANGED chatVars

\* ConfluenceHandler._process_confluence, line 92, in the per-URL thread
update_start(o) ==
  /\ kind[o] = "update"
  /\ tpc[o] = "ustart"
  /\ Upsert(o, src[o], "task", "PROCESSING")
  /\ Goto(o, "uextract")
  /\ UNCHANGED <<kind, src, hpc, stop, uploadOk, vsCalls>>
  /\ UNCHANGED <<pieces, mapped>>
  /\ UNCHANGED storeVars
  /\ UNCHANGED callVars
  /\ UNCHANGED chatVars

\* _process_confluence, lines 93-108; the per-URL thread ends either way and
\* the update thread goes on after the join (updater lines 129-132)
update_extract(o) ==
  /\ kind[o] = "update"
  /\ tpc[o] = "uextract"
  /\ ConfluenceExtract(o, "uduplicate", "uduplicate")
  /\ UNCHANGED <<kind, src, hpc, stop, uploadOk, vsCalls>>
  /\ UNCHANGED storeVars
  /\ UNCHANGED callVars
  /\ UNCHANGED chatVars

\* updater lines 132-133: rag_api.duplicate_collection(), then the call
\* _update_vector_db(results, use_latest_collection=...) of a method declared
\* as _update_vector_db(self, results) (handler line 110): a TypeError ends
\* the thread before any delete, upload or switch
update_duplicate(o) ==
  /\ kind[o] = "update"
  /\ tpc[o] = "uduplicate"
  /\ VsCall(o, "duplicate")
  /\ Goto(o, "ret")
  /\ UNCHANGED <<status, kind, src, hpc, stop, writes, uploadOk>>
  /\ UNCHANGED <<pieces, mapped>>
  /\ UNCHANGED storeVars
  /\ UNCHANGED callVars
  /\ UNCHANGED chatVars

(***************************************************************************)
(* The vector store as QdrantDatabase uses it.  A snapshot                 *)
(* <alias>_<YYYYMMDDhhmmss> is represented by its timestamp; every client  *)
(* call is one step; the request handler is multi-threaded, its workers    *)
(* share one QdrantDatabase and interleave between client calls.           *)
(***************************************************************************)
MaxTime == 3
MaxHistory == 2

Times == 1..MaxTime
Workers == {"w1", "w2"}
Docs == {"a", "b"}
\* the configured alias: the collection name QdrantVectorStore starts with
AliasName == 0
NoTarget == 0

\* get_sorted_collection_names, line 349: sorted(..., key=timestamp suffix)
RECURSIVE SortedByTimestamp(_)
SortedByTimestamp(S) ==
  IF S = {} THEN << >>
  ELSE LET oldest == CHOOSE c \in S : \A d \in S : c <= d
       IN <<oldest>> \o SortedByTimestamp(S \ {oldest})

\* get_sorted_collection_names, lines 339-349 (raises on the empty list)
get_sorted_collection_names == SortedByTimestamp(collections)

\* _get_aliases_of_interest, lines 351-357
_get_aliases_of_interest == aliases

\* alias_of_interest[0].collection_name
FirstOf(aoi) == CHOOSE c \in aoi : TRUE

\* a CreateAliasOperation that would leave an older binding in place
CreateAliasKeepingOld(bound, c) == bound \cup {c}

\* models.CreateAliasOperation applied by the store: the alias name is a key
CreateAliasOperation(bound, c) == {c}

\* models.DeleteAliasOperation applied by the store
DeleteAliasOperation(bound) == {}

\* client.delete_collection: the store drops the collection and its aliases
DropCollection(c) ==
  /\ collections' = collections \ {c}
  /\ points' = [points EXCEPT ![c] = {}]
  /\ aliases' = aliases \ {c}

\* named: the request passed a collection_name
IdleLocals == [aoi |-> {}, target |-> NoTarget, sorted |-> << >>, doc |-> "a",
               named |-> FALSE, filter |-> {}]

Serve(w, pc, locals) ==
  /\ rpc' = [rpc EXCEPT ![w] = pc]
  /\ rl' = [rl EXCEPT ![w] = locals]

Finish(w) == Serve(w, "idle", IdleLocals)

\* the clock advances by a second
tick ==
  /\ now < MaxTime
  /\ now' = now + 1
  /\ UNCHANGED <<collections, points, aliases, historyCount, vsName, rpc, rl,
                 everUploaded>>
  /\ UNCHANGED adminVars
  /\ UNCHANGED callVars
  /\ UNCHANGED chatVars

(***************************************************************************)
(* QdrantDatabase.upload, called by upload_information_piece (line 58)     *)
(***************************************************************************)
\* lines 176-182: the target snapshot; collection_name = NoTarget is None
upload_resolve(w, doc, collection_name) ==
  /\ rpc[w] = "idle"
  /\ LET aoi == _get_aliases_of_interest
     IN Serve(w, "up_write",
              [IdleLocals EXCEPT !.aoi = aoi, !.doc = doc,
                                 !.named = (collection_name # NoTarget),
                                 !.target = IF collection_name # NoTarget THEN collection_name
                                            ELSE IF aoi = {} THEN now
                                            ELSE FirstOf(aoi)])
  /\ UNCHANGED <<collections, points, aliases, now, historyCount, vsName,
                 everUploaded>>
  /\ UNCHANGED adminVars
  /\ UNCHANGED callVars
  /\ UNCHANGED chatVars

\* DefaultInformationPiecesUploader.upload_information_piece, line 58: upload()
\* is handed the documents alone, whatever use_latest_collection the request
\* carries
upload_information_piece(w, doc, use_latest_collection) ==
  upload_resolve(w, doc, NoTarget)

\* lines 184-191: from_documents creates the collection when it is missing,
\* adds the documents, and the result replaces self._vectorstore
upload_write(w) ==
  /\ rpc[w] = "up_write"
  /\ \E ok \in BOOLEAN :
       IF ok
         THEN /\ collections' = collections \cup {rl[w].target}
              /\ points' = [points EXCEPT ![rl[w].target] = @ \cup {rl[w].doc}]
              /\ vsName' = rl[w].target
              /\ IF rl[w].aoi = {}
                   THEN Serve(w, "up_alias", rl[w]) /\ UNCHANGED everUploaded
                   ELSE Finish(w) /\ everUploaded' = TRUE
         ELSE /\ Finish(w)
              /\ UNCHANGED <<collections, points, vsName, everUploaded>>
  /\ UNCHANGED <<aliases, now, historyCount>>
  /\ UNCHANGED adminVars
  /\ UNCHANGED callVars
  /\ UNCHANGED chatVars

\* lines 193-202: no alias was found at line 176, so one is created
upload_alias(w) ==
  /\ rpc[w] = "up_alias"
  /\ IF rl[w].target \in collections
       THEN /\ aliases' = CreateAliasOperation(aliases, rl[w].target)
            /\ everUploaded' = TRUE
       ELSE UNCHANGED <<aliases, everUploaded>>
  /\ Finish(w)
  /\ UNCHANGED <<collections, points, now, historyCount, vsName>>
  /\ UNCHANGED adminVars
  /\ UNCHANGED callVars
  /\ UNCHANGED chatVars

(***************************************************************************)
(* QdrantDatabase.duplicate_alias_tagged_collection                        *)
(***************************************************************************)
\* lines 310-321 as they would be if the ValueError were raised only after
\* the target had been created
duplicate_resolve_creating_first(w) ==
  /\ rpc[w] = "idle"
  /\ LET aoi == _get_aliases_of_interest
     IN IF Cardinality(aoi) = 1
          THEN /\ Serve(w, "dup_create", [IdleLocals EXCEPT !.aoi = aoi, !.target = now])
               /\ UNCHANGED collections
          ELSE /\ Finish(w)
               /\ collections' = collections \cup {now}
  /\ UNCHANGED <<points, aliases, now, historyCount, vsName, everUploaded>>
  /\ UNCHANGED adminVars
  /\ UNCHANGED callVars
  /\ UNCHANGED chatVars

\* lines 310-321: ValueError unless exactly one alias binding is found
duplicate_resolve(w) ==
  /\ rpc[w] = "idle"
  /\ LET aoi == _get_aliases_of_interest
     IN IF Cardinality(aoi) = 1
          THEN Serve(w, "dup_create", [IdleLocals EXCEPT !.aoi = aoi, !.target = now])
          ELSE Finish(w)
  /\ UNCHANGED <<collections, points, aliases, now, historyCount, vsName,
                 everUploaded>>
  /\ UNCHANGED adminVars
  /\ UNCHANGED callVars
  /\ UNCHANGED chatVars

\* create_collection_from as it would be without init_from (line 300)
duplicate_create_empty(w) ==
  /\ rpc[w] = "dup_create"
  /\ LET source == FirstOf(rl[w].aoi)
         target == rl[w].target
     IN IF source \in collections /\ target \notin collections
          THEN /\ collections' = collections \cup {target}
               /\ points' = [points EXCEPT ![target] = {}]
          ELSE UNCHANGED <<collections, points>>
  /\ Finish(w)
  /\ UNCHANGED <<aliases, now, historyCount, vsName, everUploaded>>
  /\ UNCHANGED adminVars
  /\ UNCHANGED callVars
  /\ UNCHANGED chatVars

\* lines 324-326 and create_collection_from, 294-301: fails when the source
\* is gone or the target name is taken
duplicate_create(w) ==
  /\ rpc[w] = "dup_create"
  /\ LET source == FirstOf(rl[w].aoi)
         target == rl[w].target
     IN IF source \in collections /\ target \notin collections
          THEN /\ collections' = collections \cup {target}
               /\ points' = [points EXCEPT ![target] = points[source]]
          ELSE UNCHANGED <<collections, points>>
  /\ Finish(w)
  /\ UNCHANGED <<aliases, now, historyCount, vsName, everUploaded>>
  /\ UNCHANGED adminVars
  /\ UNCHANGED callVars
  /\ UNCHANGED chatVars

(***************************************************************************)
(* DefaultCollectionSwitcher.aswitch_collection and                        *)
(* QdrantDatabase.switch_collections / _cleanup_old_collections            *)
(***************************************************************************)
Last(seq) == seq[Len(seq)]

\* default_collection_switcher.py line 34: get_sorted_collection_names()[-1]
switch_latest(w) ==
  /\ rpc[w] = "idle"
  /\ LET sorted == get_sorted_collection_names
     IN IF sorted = << >>
          THEN Finish(w)
          ELSE Serve(w, "sw_alias", [IdleLocals EXCEPT !.target = Last(sorted)])
  /\ UNCHANGED <<collections, points, aliases, now, historyCount, vsName,
                 everUploaded>>
  /\ UNCHANGED adminVars
  /\ UNCHANGED callVars
  /\ UNCHANGED chatVars

\* switch_collections as it would be with DeleteAlias and CreateAlias sent in
\* two client calls
switch_collections_in_two_calls(w) ==
  /\ rpc[w] = "sw_alias"
  /\ IF aliases # {}
       THEN /\ aliases' = DeleteAliasOperation(aliases)
            /\ UNCHANGED <<rpc, rl>>
       ELSE IF rl[w].target \in collections
         THEN /\ aliases' = CreateAliasOperation(aliases, rl[w].target)
              /\ Serve(w, "sw_cleanup", [rl[w] EXCEPT !.aoi = aliases])
         ELSE /\ UNCHANGED aliases
              /\ Finish(w)
  /\ UNCHANGED <<collections, points, now, historyCount, vsName,
                 everUploaded>>
  /\ UNCHANGED adminVars
  /\ UNCHANGED callVars
  /\ UNCHANGED chatVars

\* switch_collections as it would be without line 281, the cleanup
switch_collections_without_cleanup(w) ==
  /\ rpc[w] = "sw_alias"
  /\ IF rl[w].target \in collections
       THEN aliases' = CreateAliasOperation(DeleteAliasOperation(aliases), rl[w].target)
       ELSE aliases' = DeleteAliasOperation(aliases)
  /\ Finish(w)
  /\ UNCHANGED <<collections, points, now, historyCount, vsName,
                 everUploaded>>
  /\ UNCHANGED adminVars
  /\ UNCHANGED callVars
  /\ UNCHANGED chatVars

\* switch_collections, lines 263-279: the warning does not return; the store
\* applies DeleteAlias, then CreateAlias, which fails for a missing collection
switch_collections(w) ==
  /\ rpc[w] = "sw_alias"
  /\ IF rl[w].target \in collections
       THEN /\ aliases' = CreateAliasOperation(DeleteAliasOperation(aliases), rl[w].target)
            /\ Serve(w, "sw_cleanup", [rl[w] EXCEPT !.aoi = aliases])
       ELSE /\ aliases' = DeleteAliasOperation(aliases)
            /\ Finish(w)
  /\ UNCHANGED <<collections, points, now, historyCount, vsName,
                 everUploaded>>
  /\ UNCHANGED adminVars
  /\ UNCHANGED callVars
  /\ UNCHANGED chatVars

\* _cleanup_old_collections, lines 382-385
cleanup_start(w) ==
  /\ rpc[w] = "sw_cleanup"
  /\ LET sorted == get_sorted_collection_names
         nr_collections == Len(sorted)
     IN IF \/ sorted = << >>
           \/ nr_collections = 1
           \/ nr_collections < historyCount
           \/ ~(nr_collections > historyCount)
          THEN Finish(w)
          ELSE Serve(w, "sw_evict", [rl[w] EXCEPT !.sorted = sorted])
  /\ UNCHANGED <<collections, points, aliases, now, historyCount, vsName,
                 everUploaded>>
  /\ UNCHANGED adminVars
  /\ UNCHANGED callVars
  /\ UNCHANGED chatVars

\* the while loop of lines 392-398 as it would be with >= in its condition
cleanup_evict_one_more(w) ==
  /\ rpc[w] = "sw_evict"
  /\ LET collection_to_delete == Head(rl[w].sorted)
         rest == Tail(rl[w].sorted)
     IN /\ DropCollection(collection_to_delete)
        /\ IF Len(rest) >= historyCount /\ rest # << >>
             THEN Serve(w, "sw_evict", [rl[w] EXCEPT !.sorted = rest])
             ELSE Finish(w)
  /\ UNCHANGED <<now, historyCount, vsName, everUploaded>>
  /\ UNCHANGED adminVars
  /\ UNCHANGED callVars
  /\ UNCHANGED chatVars

\* _cleanup_old_collections, lines 392-398: one turn of the while loop
cleanup_evict(w) ==
  /\ rpc[w] = "sw_evict"
  /\ LET collection_to_delete == Head(rl[w].sorted)
         rest == Tail(rl[w].sorted)
     IN /\ DropCollection(collection_to_delete)
        /\ IF Len(rest) > historyCount
             THEN Serve(w, "sw_evict", [rl[w] EXCEPT !.sorted = rest])
             ELSE Finish(w)
  /\ UNCHANGED <<now, historyCount, vsName, everUploaded>>
  /\ UNCHANGED adminVars
  /\ UNCHANGED callVars
  /\ UNCHANGED chatVars

(***************************************************************************)
(* DefaultInformationPiecesRemover.remove_information_piece and            *)
(* QdrantDatabase.delete                                                   *)
(***************************************************************************)
\* the metadata of the pieces of a document, as the filter sees them
Metadata(doc) == [document |-> doc, type |-> "TEXT"]

\* delete_request.metadata after line 50: a set of <<key, value>> pairs
Filters ==
  { {},
    {<<"document", "a">>},
    {<<"document", "b">>},
    {<<"type", "TEXT">>},
    {<<"document", "a">>, <<"type", "TEXT">>},
    {<<"document", "a">>, <<"type", "IMAGE">>} }

\* models.Filter(must=...), lines 223-235: every condition has to match
Matches(doc, filter) == \A kv \in filter : Metadata(doc)[kv[1]] = kv[2]

\* a filter that would match on any one condition
MatchesAny(doc, filter) == \E kv \in filter : Metadata(doc)[kv[1]] = kv[2]

\* the response of remove_information_piece when it ends before the store is
\* written (0: it goes on to client.delete): json.loads fails, lines 51-56;
\* no metadata, 57-61; get_sorted_collection_names raises at line 64, outside
\* the try; delete raises at line 221 and remover lines 67-72 answer 404
remove_status_unchecked(filter, parses, use_latest_collection) ==
  IF ~parses THEN 500
  ELSE IF use_latest_collection /\ get_sorted_collection_names = << >> THEN 500
  ELSE IF ~use_latest_collection /\ _get_aliases_of_interest = {} THEN 404
  ELSE 0

remove_status(filter, parses, use_latest_collection) ==
  IF ~parses THEN 500
  ELSE IF filter = {} THEN 422
  ELSE IF use_latest_collection /\ get_sorted_collection_names = << >> THEN 500
  ELSE IF ~use_latest_collection /\ _get_aliases_of_interest = {} THEN 404
  ELSE 0

\* remover lines 47-64 and delete, lines 215-221
delete_resolve(w, filter, parses, use_latest_collection) ==
  /\ rpc[w] = "idle"
  /\ IF remove_status(filter, parses, use_latest_collection) # 0
       THEN Finish(w)
       ELSE Serve(w, "del_points",
                  [IdleLocals EXCEPT
                     !.filter = filter,
                     !.target = IF use_latest_collection
                                  THEN Last(get_sorted_collection_names)
                                  ELSE FirstOf(_get_aliases_of_interest)])
  /\ UNCHANGED <<collections, points, aliases, now, historyCount, vsName,
                 everUploaded>>
  /\ UNCHANGED adminVars
  /\ UNCHANGED callVars
  /\ UNCHANGED chatVars

\* delete as it would be with a filter built with should instead of must
delete_points_matching_any(w) ==
  /\ rpc[w] = "del_points"
  /\ IF rl[w].target \in collections
       THEN points' = [points EXCEPT ![rl[w].target] =
                         {d \in @ : ~MatchesAny(d, rl[w].filter)}]
       ELSE UNCHANGED points
  /\ Finish(w)
  /\ UNCHANGED <<collections, aliases, now, historyCount, vsName,
                 everUploaded>>
  /\ UNCHANGED adminVars
  /\ UNCHANGED callVars
  /\ UNCHANGED chatVars

\* delete, lines 223-240
delete_points(w) ==
  /\ rpc[w] = "del_points"
  /\ IF rl[w].target \in collections
       THEN points' = [points EXCEPT ![rl[w].target] =
                         {d \in @ : ~Matches(d, rl[w].filter)}]
       ELSE UNCHANGED points
  /\ Finish(w)
  /\ UNCHANGED <<collections, aliases, now, historyCount, vsName,
                 everUploaded>>
  /\ UNCHANGED adminVars
  /\ UNCHANGED callVars
  /\ UNCHANGED chatVars

(***************************************************************************)
(* Reads: asearch, get_specific_document, collection_available             *)
(***************************************************************************)
ReadKinds == {"asearch", "get_specific_document", "collection_available"}

\* the snapshot a read addresses: self._vectorstore.collection_name
\* (lines 66-67, 108, 137); the store resolves the alias name, but the alias
\* name is not among get_collections() (line 66)
ReadTarget(k) ==
  IF vsName # AliasName THEN vsName
  ELSE IF k = "collection_available" \/ aliases = {} THEN NoTarget
  ELSE FirstOf(aliases)

\* the read is issued against that snapshot
read(w, k) ==
  /\ rpc[w] = "idle"
  /\ Serve(w, "read", [IdleLocals EXCEPT !.target = ReadTarget(k)])
  /\ UNCHANGED <<collections, points, aliases, now, historyCount, vsName, everUploaded>>
  /\ UNCHANGED adminVars
  /\ UNCHANGED callVars
  /\ UNCHANGED chatVars

\* and returns
read_return(w) ==
  /\ rpc[w] = "read"
  /\ Finish(w)
  /\ UNCHANGED <<collections, points, aliases, now, historyCount, vsName, everUploaded>>
  /\ UNCHANGED adminVars
  /\ UNCHANGED callVars
  /\ UNCHANGED chatVars

(***************************************************************************)
(* The chat endpoint of rag_core_api/apis/rag_api.py: chat_task raced       *)
(* against the client-disconnect watcher.  The chat coroutine itself is a  *)
(* collaborator: it returns a response or raises, and a cancelled chat     *)
(* task ends cancelled or completes all the same.                          *)
(***************************************************************************)
NumRequests == 2

Requests == 1..NumRequests
Tasks == {"disconnect_task", "chat_task"}

\* a task is done once it has returned, raised or been cancelled
Finished == {"returned", "raised", "cancelled"}
Done(r) == {t \in Tasks : task[r][t] \in Finished}

\* chat_task.result(): the value the coroutine returned, or its exception
Result(r) == IF task[r]["chat_task"] = "returned" THEN "ChatResponse" ELSE "exception"

\* lines 96-98: both tasks are created and the endpoint awaits wait(...)
chat(r) ==
  /\ cpc[r] = "idle"
  /\ task' = [task EXCEPT ![r] = [t \in Tasks |-> "running"]]
  /\ cpc' = [cpc EXCEPT ![r] = "wait"]
  /\ UNCHANGED <<done, response>>
  /\ UNCHANGED adminVars
  /\ UNCHANGED storeVars
  /\ UNCHANGED callVars

\* the chat coroutine returns its response or raises
chat_task_ends(r) ==
  /\ task[r]["chat_task"] = "running"
  /\ \E outcome \in {"returned", "raised"} :
       task' = [task EXCEPT ![r]["chat_task"] = outcome]
  /\ UNCHANGED <<cpc, done, response>>
  /\ UNCHANGED adminVars
  /\ UNCHANGED storeVars
  /\ UNCHANGED callVars

\* _disconnected, lines 45-52: request.is_disconnected() answers True (the
\* loop breaks) or raises
_disconnected(r) ==
  /\ task[r]["disconnect_task"] = "running"
  /\ \E outcome \in {"returned", "raised"} :
       task' = [task EXCEPT ![r]["disconnect_task"] = outcome]
  /\ UNCHANGED <<cpc, done, response>>
  /\ UNCHANGED adminVars
  /\ UNCHANGED storeVars
  /\ UNCHANGED callVars

\* lines 98-101: wait(..., return_when=FIRST_COMPLETED) returns once a task
\* is done, with every task that is done by then
wait_first_completed(r) ==
  /\ cpc[r] = "wait"
  /\ Done(r) # {}
  /\ done' = [done EXCEPT ![r] = Done(r)]
  /\ cpc' = [cpc EXCEPT ![r] = "cancel"]
  /\ UNCHANGED <<task, response>>
  /\ UNCHANGED adminVars
  /\ UNCHANGED storeVars
  /\ UNCHANGED callVars

\* the loop of lines 104-107 as it would be without the await
cancel_pending_without_await(r) ==
  /\ cpc[r] = "cancel"
  /\ UNCHANGED task
  /\ cpc' = [cpc EXCEPT ![r] = "return"]
  /\ UNCHANGED <<done, response>>
  /\ UNCHANGED adminVars
  /\ UNCHANGED storeVars
  /\ UNCHANGED callVars

\* lines 104-107: every pending task is cancelled and awaited; _disconnected
\* catches the CancelledError and returns (lines 51-52), the chat coroutine
\* ends cancelled or completes
cancel_pending(r) ==
  /\ cpc[r] = "cancel"
  /\ \E ending \in {"cancelled", "returned"} :
       task' = [task EXCEPT ![r] =
                  [t \in Tasks |->
                     IF t \in done[r] THEN task[r][t]
                     ELSE IF t = "disconnect_task" THEN "returned"
                     ELSE ending]]
  /\ cpc' = [cpc EXCEPT ![r] = "return"]
  /\ UNCHANGED <<done, response>>
  /\ UNCHANGED adminVars
  /\ UNCHANGED storeVars
  /\ UNCHANGED callVars

\* lines 108-111
chat_return(r) ==
  /\ cpc[r] = "return"
  /\ response' = [response EXCEPT ![r] =
       IF "chat_task" \in done[r] THEN Result(r) ELSE "None"]
  /\ cpc' = [cpc EXCEPT ![r] = "returned"]
  /\ UNCHANGED <<task, done>>
  /\ UNCHANGED adminVars
  /\ UNCHANGED storeVars
  /\ UNCHANGED callVars

(***************************************************************************)
(* Specification of the admin side                                         *)
(***************************************************************************)
AdminInit ==
  /\ status = [s \in SourceNames |-> "NONE"]
  /\ kind = [o \in Ops |-> "none"]
  /\ src = [o \in Ops |-> ConfSource]
  /\ hpc = [o \in Ops |-> "idle"]
  /\ tpc = [o \in Ops |-> "none"]
  /\ stop = [o \in Ops |-> FALSE]
  /\ writes = [o \in Ops |-> << >>]
  /\ uploadOk = [o \in Ops |-> FALSE]
  /\ vsCalls = [o \in Ops |-> << >>]
  /\ pieces = [o \in Ops |-> "unset"]
  /\ mapped = [o \in Ops |-> FALSE]

\* an empty vector store; QdrantVectorStore is built on the alias name
EmptyStore ==
  /\ collections = {}
  /\ points = [c \in Times |-> {}]
  /\ aliases = {}
  /\ now = 1
  /\ vsName = AliasName
  /\ rpc = [w \in Workers |-> "idle"]
  /\ rl = [w \in Workers |-> IdleLocals]
  /\ everUploaded = FALSE

\* no function is being checked on its own
NoCall ==
  /\ fn = "none"
  /\ args = << >>
  /\ result = << >>

\* no chat request has arrived
NoChat ==
  /\ cpc = [r \in Requests |-> "idle"]
  /\ task = [r \in Requests |-> [t \in Tasks |-> "none"]]
  /\ done = [r \in Requests |-> {}]
  /\ response = [r \in Requests |-> "none"]

Init ==
  /\ AdminInit
  /\ EmptyStore
  /\ historyCount = 1
  /\ NoCall
  /\ NoChat

Next ==
  \/ \E o \in Ops, s \in UploadSources : upload_source(o, s)
  \/ \E o \in Ops : wait_returns(o)
  \/ \E o \in Ops : wait_timeout(o)
  \/ \E o \in Ops : signal_stop(o)
  \/ \E o \in Ops : extract(o)
  \/ \E o \in Ops : stage(o)
  \/ \E o \in Ops : last_checkpoint(o)
  \/ \E o \in Ops : delete_prior(o)
  \/ \E o \in Ops : upload_pieces(o)
  \/ \E o \in Ops : write_ready(o)
  \/ \E o \in Ops : handle_exception(o)
  \/ \E o \in Ops : task_return(o)
  \/ \E o \in Ops, s \in UploadSources : upload_file(o, s)
  \/ \E o \in Ops : file_extract(o)
  \/ \E o \in Ops : file_process(o)
  \/ \E o \in Ops : file_add_url(o)
  \/ \E o \in Ops : aload_from_confluence(o)
  \/ \E o \in Ops : confluence_start(o)
  \/ \E o \in Ops : confluence_extract(o)
  \/ \E o \in Ops : confluence_delete(o)
  \/ \E o \in Ops : confluence_upload(o)

Spec == Init /\ [][Next]_vars

\* the admin side with the Confluence update as well
AdminNext ==
  \/ Next
  \/ \E o \in Ops : aupdate_from_confluence(o)
  \/ \E o \in Ops : update_start(o)
  \/ \E o \in Ops : update_extract(o)
  \/ \E o \in Ops : update_duplicate(o)

AdminSpec == Init /\ [][AdminNext]_vars

\* the chat endpoint serving its requests
ChatInit ==
  /\ AdminInit
  /\ EmptyStore
  /\ historyCount = 1
  /\ NoCall
  /\ NoChat

ChatNext ==
  \/ \E r \in Requests : chat(r)
  \/ \E r \in Requests : chat_task_ends(r)
  \/ \E r \in Requests : _disconnected(r)
  \/ \E r \in Requests : wait_first_completed(r)
  \/ \E r \in Requests : cancel_pending(r)
  \/ \E r \in Requests : chat_return(r)

ChatSpec == ChatInit /\ [][ChatNext]_vars

(***************************************************************************)
(* Specification of the RAG side                                           *)
(***************************************************************************)
StoreInit ==
  /\ AdminInit
  /\ EmptyStore
  /\ historyCount \in 1..MaxHistory
  /\ NoCall
  /\ NoChat

\* the overlapping requests carry one and the same piece: which pieces a
\* snapshot holds decides no branch of QdrantDatabase
StoreDocs == {"a"}
StoreFilters == {{<<"document", "a">>}}

StoreNext ==
  \/ tick
  \/ \E w \in Workers, doc \in StoreDocs, use_latest_collection \in BOOLEAN :
        upload_information_piece(w, doc, use_latest_collection)
  \/ \E w \in Workers : upload_write(w)
  \/ \E w \in Workers : upload_alias(w)
  \/ \E w \in Workers : duplicate_resolve(w)
  \/ \E w \in Workers : duplicate_create(w)
  \/ \E w \in Workers : switch_latest(w)
  \/ \E w \in Workers : switch_collections(w)
  \/ \E w \in Workers : cleanup_start(w)
  \/ \E w \in Workers : cleanup_evict(w)
  \/ \E w \in Workers, filter \in StoreFilters, use_latest_collection \in BOOLEAN :
        delete_resolve(w, filter, TRUE, use_latest_collection)
  \/ \E w \in Workers : delete_points(w)
  \/ \E w \in Workers, k \in ReadKinds : read(w, k)
  \/ \E w \in Workers : read_return(w)

StoreSpec == StoreInit /\ [][StoreNext]_vars

(***************************************************************************)
(* The RAG side with its requests served one after the other, as a single  *)
(* event loop runs the async handlers of rag_api.py; QdrantDatabase.upload *)
(* is also called with a collection name: an existing snapshot, or a new   *)
(* one named after the current second                                      *)
(***************************************************************************)
\* no worker is serving a request
Quiescent == \A w \in Workers : rpc[w] = "idle"

\* no other worker is serving a request
Alone(w) == \A v \in Workers \ {w} : rpc[v] = "idle"

SerialStoreNext ==
  \/ tick
  \/ \E w \in Workers, doc \in Docs, use_latest_collection \in BOOLEAN :
        Alone(w) /\ upload_information_piece(w, doc, use_latest_collection)
  \/ \E w \in Workers, doc \in Docs, collection_name \in collections \cup {now} :
        Alone(w) /\ upload_resolve(w, doc, collection_name)
  \/ \E w \in Workers : Alone(w) /\ upload_write(w)
  \/ \E w \in Workers : Alone(w) /\ upload_alias(w)
  \/ \E w \in Workers : Alone(w) /\ duplicate_resolve(w)
  \/ \E w \in Workers : Alone(w) /\ duplicate_create(w)
  \/ \E w \in Workers : Alone(w) /\ switch_latest(w)
  \/ \E w \in Workers : Alone(w) /\ switch_collections(w)
  \/ \E w \in Workers : Alone(w) /\ cleanup_start(w)
  \/ \E w \in Workers : Alone(w) /\ cleanup_evict(w)
  \/ \E w \in Workers, filter \in Filters, parses \in BOOLEAN,
        use_latest_collection \in BOOLEAN :
        Alone(w) /\ delete_resolve(w, filter, parses, use_latest_collection)
  \/ \E w \in Workers : Alone(w) /\ delete_points(w)
  \/ \E w \in Workers, k \in ReadKinds : Alone(w) /\ read(w, k)
  \/ \E w \in Workers : Alone(w) /\ read_return(w)

SerialStoreSpec == StoreInit /\ [][SerialStoreNext]_vars

(***************************************************************************)
(* Uploads of distinct sources that overlap, on a store that starts empty  *)
(***************************************************************************)
UploadsNext ==
  \/ tick
  \/ \E w \in Workers, doc \in Docs, use_latest_collection \in BOOLEAN :
        upload_information_piece(w, doc, use_latest_collection)
  \/ \E w \in Workers : upload_write(w)
  \/ \E w \in Workers : upload_alias(w)

UploadsSpec == StoreInit /\ [][UploadsNext]_vars

(***************************************************************************)
(* An admin pipeline as the RAG side sees it: the delete of the prior      *)
(* version of a source (document_deleter.adelete_document, which ends in   *)
(* remove_information_piece) and then upload_information_piece, both with  *)
(* the use_latest_collection of the pipeline: True in                      *)
(* ConfluenceHandler._update_vector_db, absent in the other pipelines.     *)
(***************************************************************************)
\* deleted: the snapshot the delete of this pipeline addressed
PipelineLocals == [aoi |-> {}, target |-> NoTarget, doc |-> "a",
                   use_latest_collection |-> FALSE, deleted |-> NoTarget]

\* handler lines 113-115 and 150-161, remover lines 47-66: the delete request;
\* a rejected delete is logged and the pipeline goes on
pipeline_delete(w, doc, use_latest_collection) ==
  /\ rpc[w] = "idle"
  /\ LET locals == [PipelineLocals EXCEPT
                      !.doc = doc, !.use_latest_collection = use_latest_collection]
     IN IF remove_status({<<"document", doc>>}, TRUE, use_latest_collection) # 0
          THEN Serve(w, "pl_upload", locals)
          ELSE Serve(w, "pl_delete",
                     [locals EXCEPT
                        !.target = IF use_latest_collection
                                     THEN Last(get_sorted_collection_names)
                                     ELSE FirstOf(_get_aliases_of_interest)])
  /\ UNCHANGED <<collections, points, aliases, now, historyCount, vsName,
                 everUploaded>>
  /\ UNCHANGED adminVars
  /\ UNCHANGED callVars
  /\ UNCHANGED chatVars

\* QdrantDatabase.delete, lines 223-240, for the filter on metadata.document
pipeline_delete_points(w) ==
  /\ rpc[w] = "pl_delete"
  /\ IF rl[w].target \in collections
       THEN /\ points' = [points EXCEPT ![rl[w].target] = @ \ {rl[w].doc}]
            /\ Serve(w, "pl_upload", [rl[w] EXCEPT !.deleted = rl[w].target])
       ELSE /\ UNCHANGED points
            /\ Serve(w, "pl_upload", rl[w])
  /\ UNCHANGED <<collections, aliases, now, historyCount, vsName,
                 everUploaded>>
  /\ UNCHANGED adminVars
  /\ UNCHANGED callVars
  /\ UNCHANGED chatVars

\* handler lines 119-121 and 163-165, uploader line 58 and QdrantDatabase.upload
\* lines 176-182: upload() gets the documents alone and resolves the alias
pipeline_upload(w) ==
  /\ rpc[w] = "pl_upload"
  /\ LET aoi == _get_aliases_of_interest
     IN Serve(w, "pl_write",
              [rl[w] EXCEPT !.aoi = aoi,
                            !.target = IF aoi = {} THEN now ELSE FirstOf(aoi)])
  /\ UNCHANGED <<collections, points, aliases, now, historyCount, vsName,
                 everUploaded>>
  /\ UNCHANGED adminVars
  /\ UNCHANGED callVars
  /\ UNCHANGED chatVars

\* QdrantDatabase.upload, lines 184-202: the write and, when no alias was
\* found, the alias; a failed write ends the pipeline in ERROR
pipeline_write(w) ==
  /\ rpc[w] = "pl_write"
  /\ \E ok \in BOOLEAN :
       IF ok
         THEN /\ collections' = collections \cup {rl[w].target}
              /\ points' = [points EXCEPT ![rl[w].target] = @ \cup {rl[w].doc}]
              /\ vsName' = rl[w].target
              /\ aliases' = IF rl[w].aoi = {}
                              THEN CreateAliasOperation(aliases, rl[w].target)
                              ELSE aliases
              /\ everUploaded' = TRUE
              /\ Serve(w, "pl_ready", rl[w])
         ELSE /\ Finish(w)
              /\ UNCHANGED <<collections, points, vsName, aliases, everUploaded>>
  /\ UNCHANGED <<now, historyCount>>
  /\ UNCHANGED adminVars
  /\ UNCHANGED callVars
  /\ UNCHANGED chatVars

\* handler line 166: READY, the pipeline has succeeded
pipeline_ready(w) ==
  /\ rpc[w] = "pl_ready"
  /\ Finish(w)
  /\ UNCHANGED <<collections, points, aliases, now, historyCount, vsName,
                 everUploaded>>
  /\ UNCHANGED adminVars
  /\ UNCHANGED callVars
  /\ UNCHANGED chatVars

PipelineNext ==
  \/ tick
  \/ \E w \in Workers : Alone(w) /\ duplicate_resolve(w)
  \/ \E w \in Workers : duplicate_create(w)
  \/ \E w \in Workers, doc \in Docs, use_latest_collection \in BOOLEAN :
        Alone(w) /\ pipeline_delete(w, doc, use_latest_collection)
  \/ \E w \in Workers : pipeline_delete_points(w)
  \/ \E w \in Workers : pipeline_upload(w)
  \/ \E w \in Workers : pipeline_write(w)
  \/ \E w \in Workers : pipeline_ready(w)

PipelineSpec == StoreInit /\ [][PipelineNext]_vars

(***************************************************************************)
(* The rolling update of default_collection_switcher_test.py,              *)
(* test_aswitch_collection: one aliased snapshot, then Duplicate, an       *)
(* upload of a new piece into the latest snapshot, Switch, and reads       *)
(***************************************************************************)
\* the piece the rolling update adds
NewPiece == "b"

RolloutInit ==
  /\ AdminInit
  /\ \E first \in Times, old \in SUBSET (Docs \ {NewPiece}) :
       /\ collections = {first}
       /\ points = [c \in Times |-> IF c = first THEN old ELSE {}]
       /\ aliases = {first}
       /\ now = first
       /\ vsName \in {AliasName, first}
  /\ historyCount \in 1..MaxHistory
  /\ rpc = [w \in Workers |-> "idle"]
  /\ rl = [w \in Workers |-> IdleLocals]
  /\ everUploaded = TRUE
  /\ NoCall
  /\ NoChat

\* the step of the rolling update the store is ready for
RolloutPhase ==
  LET sorted == get_sorted_collection_names
  IN IF aliases = {} \/ sorted = << >> THEN "none"
     ELSE IF NewPiece \in points[Last(sorted)]
       THEN IF aliases = {Last(sorted)} THEN "read" ELSE "switch"
       ELSE IF Len(sorted) = 1 THEN "duplicate" ELSE "upload"

RolloutNext ==
  \/ RolloutPhase = "duplicate" /\ Quiescent /\ tick
  \/ \E w \in Workers : RolloutPhase = "duplicate" /\ Alone(w) /\ duplicate_resolve(w)
  \/ \E w \in Workers : duplicate_create(w)
  \/ \E w \in Workers :
       /\ RolloutPhase = "upload"
       /\ Alone(w)
       /\ upload_resolve(w, NewPiece, Last(get_sorted_collection_names))
  \/ \E w \in Workers : upload_write(w)
  \/ \E w \in Workers : RolloutPhase = "switch" /\ Alone(w) /\ switch_latest(w)
  \/ \E w \in Workers : switch_collections(w)
  \/ \E w \in Workers : cleanup_start(w)
  \/ \E w \in Workers : cleanup_evict(w)
  \/ \E w \in Workers, k \in ReadKinds : RolloutPhase = "read" /\ Alone(w) /\ read(w, k)
  \/ \E w \in Workers : read_return(w)

RolloutSpec == RolloutInit /\ [][RolloutNext]_vars

(***************************************************************************)
(* Functions checked on their own: the rest of the system stays as         *)
(* constructed, the arguments are drawn by Init, one action applies the    *)
(* function.                                                               *)
(***************************************************************************)
Constructed ==
  /\ AdminInit
  /\ EmptyStore
  /\ historyCount = 1
  /\ fn = "none"
  /\ result = << >>
  /\ NoChat

Apply(name, value) ==
  /\ fn = "none"
  /\ fn' = name
  /\ result' = value
  /\ UNCHANGED args
  /\ UNCHANGED adminVars
  /\ UNCHANGED storeVars
  /\ UNCHANGED chatVars

SeqsUpTo(S, n) == UNION {[1..k -> S] : k \in 0..n}

Range(seq) == {seq[i] : i \in DOMAIN seq}

RECURSIVE Concat(_)
Concat(seqs) == IF seqs = << >> THEN << >> ELSE Head(seqs) \o Concat(Tail(seqs))

(***************************************************************************)
(* Retrieval: QdrantDatabase.asearch, CompositeRetriever.invoke and        *)
(* RagApi.search                                                           *)
(***************************************************************************)
MaxHits == 1

\* metadata.id of the pieces in the aliased snapshot
SearchIds == {1, 2, 3}
\* metadata.type; "SUMMARY" stands for ContentType.SUMMARY.value
SearchTypes == {"TEXT", "SUMMARY"}
\* the configured retriever quarks, in the order of self._retrievers
Quarks == 1..2

\* metadata.related of a stored piece: no neighbour or one
RelatedLists == {<< >>} \cup {<<r>> : r \in SearchIds}

Corpora == [SearchIds -> [type : SearchTypes, related : RelatedLists]]

Document(corpus, id) == [id |-> id, type |-> corpus[id].type, related |-> corpus[id].related]

\* get_specific_document, lines 121-158: the points whose metadata.id matches
get_specific_document(corpus, document_id) ==
  IF document_id \in DOMAIN corpus THEN <<Document(corpus, document_id)>> ELSE << >>

\* _get_related, lines 359-363
RECURSIVE _get_related(_, _)
_get_related(corpus, related_ids) ==
  IF related_ids = << >> THEN << >>
  ELSE get_specific_document(corpus, Head(related_ids))
         \o _get_related(corpus, Tail(related_ids))

\* asearch, lines 106-115: the hits of the retriever, then the related pieces
\* of every hit
asearch(corpus, hits) ==
  LET results == [i \in 1..Len(hits) |-> Document(corpus, hits[i])]
      related_results ==
        Concat([i \in 1..Len(results) |-> _get_related(corpus, results[i].related)])
  IN results \o related_results

\* retriever.invoke of a quark: the search of the vector database
quark_invoke(corpus, hits) == asearch(corpus, hits)

\* CompositeRetriever.invoke, lines 32-34
Retrieved(a) == Concat([q \in Quarks |-> quark_invoke(a.corpus, a.hits[q])])

\* CompositeRetriever.invoke, line 37
RemoveSummaries(results) == SelectSeq(results, LAMBDA x : x.type # "SUMMARY")

\* lines 40-44 as they would be if only the last kept entry were compared
RECURSIVE RemoveAdjacentDuplicates(_, _)
RemoveAdjacentDuplicates(results, return_val) ==
  IF results = << >> THEN return_val
  ELSE IF return_val # << >> /\ return_val[Len(return_val)].id = Head(results).id
         THEN RemoveAdjacentDuplicates(Tail(results), return_val)
         ELSE RemoveAdjacentDuplicates(Tail(results), Append(return_val, Head(results)))

\* CompositeRetriever.invoke, lines 40-44
RECURSIVE RemoveDuplicates(_, _)
RemoveDuplicates(results, return_val) ==
  IF results = << >> THEN return_val
  ELSE IF \E i \in DOMAIN return_val : return_val[i].id = Head(results).id
         THEN RemoveDuplicates(Tail(results), return_val)
         ELSE RemoveDuplicates(Tail(results), Append(return_val, Head(results)))

\* CompositeRetriever.invoke, lines 31-49
invoke(a) ==
  LET return_val == RemoveDuplicates(RemoveSummaries(Retrieved(a)), << >>)
  IN IF return_val = << >>
       THEN [raised |-> "NoDocumentsError", documents |-> << >>]
       ELSE [raised |-> "none", documents |-> return_val]

\* RagApi._search_documents, lines 136-146, and RagApi.search, lines 105-115,
\* once verify_readiness has passed
search(a) ==
  LET retrieved == invoke(a)
  IN IF retrieved.raised # "none"
       THEN [status |-> 500, documents |-> << >>]
       ELSE [status |-> 200, documents |-> retrieved.documents]

SearchInit ==
  /\ Constructed
  /\ args \in [corpus : Corpora, hits : [Quarks -> SeqsUpTo(SearchIds, MaxHits)]]

SearchNext == Apply("search", search(args))

SearchSpec == SearchInit /\ [][SearchNext]_vars

(***************************************************************************)
(* QdrantDatabase.get_sorted_collection_names over any listing of the      *)
(* store.  A collection name is its part before the last "_" and the       *)
(* timestamp after it.                                                     *)
(***************************************************************************)
MaxListed == 3

\* the name has no "_<timestamp>" ending that strptime accepts
NoTimestamp == 0

\* "rag" is the configured alias, "rag2" another name that starts with it
NamePrefixes == {"rag", "rag2", "img"}
CollectionNames == [prefix : NamePrefixes, ts : Times \cup {NoTimestamp}]

\* client.get_collections(): distinct names in the order the store lists them
Listings ==
  {l \in SeqsUpTo(CollectionNames, MaxListed) :
     \A i, j \in DOMAIN l : i # j => l[i] # l[j]}

\* line 343: collection.name.startswith(collection_alias_name)
StartsWithAlias(name) == name.prefix \in {"rag", "rag2"}

\* line 349 as it would be without the sort
RECURSIVE SortedAsListed(_)
SortedAsListed(names) ==
  IF names = << >> THEN << >>
  ELSE <<Head(names)>> \o SortedAsListed(Tail(names))

\* line 349: sorted(..., key=timestamp), a stable sort
RECURSIVE SortedStable(_)
SortedStable(names) ==
  IF names = << >> THEN << >>
  ELSE LET rest == SortedStable(Tail(names))
           before == SelectSeq(rest, LAMBDA n : n.ts < Head(names).ts)
           after == SelectSeq(rest, LAMBDA n : n.ts >= Head(names).ts)
       IN before \o <<Head(names)>> \o after

\* get_sorted_collection_names, lines 339-349
sorted_collection_names(listed) ==
  LET collections_names == SelectSeq(listed, StartsWithAlias)
  IN IF collections_names = << >>
       THEN [raised |-> "ValueError", names |-> << >>]
     ELSE IF Len(collections_names) = 1
       THEN [raised |-> "none", names |-> collections_names]
     ELSE IF \E i \in DOMAIN collections_names : collections_names[i].ts = NoTimestamp
       THEN [raised |-> "ValueError", names |-> << >>]
     ELSE [raised |-> "none", names |-> SortedStable(collections_names)]

NamesInit ==
  /\ Constructed
  /\ args \in Listings

NamesNext == Apply("get_sorted_collection_names", sorted_collection_names(args))

NamesSpec == NamesInit /\ [][NamesNext]_vars

(***************************************************************************)
(* The chunks an upload pipeline hands to rag_api.upload_information_piece *)
(***************************************************************************)
MaxChunks == 2
MaxRelated == 2

ChunkIds == {"c1", "c2"}
\* a chunk as the enhancer returns it: metadata.id and metadata.related
Chunks == [id : ChunkIds, related : SeqsUpTo(ChunkIds, MaxRelated)]

\* list.remove(x): the first occurrence goes
RECURSIVE Remove(_, _)
Remove(list, x) ==
  IF list = << >> THEN << >>
  ELSE IF Head(list) = x THEN Tail(list)
  ELSE <<Head(list)>> \o Remove(Tail(list), x)

\* DefaultFileUploader._add_file_url, lines 119-132; line 122 reads file.name,
\* which a str does not have
_add_file_url(file, chunked_documents) ==
  IF file = "str"
    THEN [raised |-> "AttributeError", pieces |-> << >>]
    ELSE [raised |-> "none",
          pieces |-> [i \in DOMAIN chunked_documents |->
                        LET chunk == chunked_documents[i]
                        IN IF chunk.id \in Range(chunk.related)
                             THEN [chunk EXCEPT !.related = Remove(@, chunk.id)]
                             ELSE chunk]]

\* InformationPiece2Document.document2rag_information_piece keeps the metadata
document2rag_information_piece(chunk) == chunk

\* what _handle_source_upload passes to rag_api.upload_information_piece:
\* DefaultFileUploader lines 100-112 (file_name is a str, line 87),
\* DefaultSourceUploader lines 204-217
uploaded_pieces(a) ==
  LET enhanced == IF a.kind = "file" THEN _add_file_url("str", a.chunks)
                  ELSE [raised |-> "none", pieces |-> a.chunks]
  IN [enhanced EXCEPT
        !.pieces = [i \in DOMAIN @ |-> document2rag_information_piece(@[i])]]

ChunksInit ==
  /\ Constructed
  /\ args \in [kind : {"file", "source"}, chunks : SeqsUpTo(Chunks, MaxChunks)]

ChunksNext == Apply("_handle_source_upload", uploaded_pieces(args))

ChunksSpec == ChunksInit /\ [][ChunksNext]_vars

(***************************************************************************)
(* InformationPieceMapper of rag_core_api: InformationPiece <-> Document   *)
(***************************************************************************)
MaxPairs == 3

DOCUMENT_URL_KEY == "document_url"
IMAGE_CONTENT_KEY == "base64_image"

ContentTypes == {"TEXT", "TABLE", "IMAGE", "SUMMARY"}
MetadataKeys == {"document", DOCUMENT_URL_KEY, IMAGE_CONTENT_KEY, "type"}
MetadataValues == {"u", "TEXT", "IMAGE"}
PageContents == {"", "text"}

\* KeyValuePair(key=..., value=...)
KeyValuePairs == [key : MetadataKeys, value : MetadataValues]

Keys(pairs) == {pairs[i].key : i \in DOMAIN pairs}
UniqueKeys(pairs) ==
  \A i, j \in DOMAIN pairs : pairs[i].key = pairs[j].key => i = j

\* metadata[key] = value on a dict kept in insertion order: an existing key
\* keeps its place and takes the value, a new key goes to the end
SetItem(pairs, key, value) ==
  IF key \in Keys(pairs)
    THEN [i \in DOMAIN pairs |->
            IF pairs[i].key = key THEN [key |-> key, value |-> value]
            ELSE pairs[i]]
    ELSE Append(pairs, [key |-> key, value |-> value])

\* {x.key: x.value for x in metadata}
RECURSIVE Dict(_)
Dict(pairs) ==
  IF pairs = << >> THEN << >>
  ELSE LET last == pairs[Len(pairs)]
       IN SetItem(Dict(SubSeq(pairs, 1, Len(pairs) - 1)), last.key, last.value)

\* metadata.get(key) on a dict
Get(pairs, key) ==
  IF key \in Keys(pairs)
    THEN pairs[CHOOSE i \in DOMAIN pairs : pairs[i].key = key].value
    ELSE "None"

\* the ValueError of the mapper: a TEXT or TABLE piece without document_url,
\* an IMAGE piece without base64_image
MissingKey(type, metadata) ==
  IF type \in {"TEXT", "TABLE"} /\ DOCUMENT_URL_KEY \notin Keys(metadata)
    THEN DOCUMENT_URL_KEY
  ELSE IF type = "IMAGE" /\ IMAGE_CONTENT_KEY \notin Keys(metadata)
    THEN IMAGE_CONTENT_KEY
  ELSE "None"

Raised(error) == [raised |-> error, value |-> << >>]
Returned(value) == [raised |-> "none", value |-> value]

information_piece2langchain_document(info) ==
  LET metadata == SetItem(Dict(info.metadata), "type", info.type)
  IN IF MissingKey(info.type, metadata) # "None" THEN Raised("ValueError")
     ELSE Returned([page_content |-> info.page_content, metadata |-> metadata])

langchain_document2information_pieceAsText(document) ==
  LET type == "TEXT"
  IN IF type \notin ContentTypes THEN Raised("ValueError")
     ELSE IF MissingKey(type, document.metadata) # "None"
       THEN Raised("ValueError")
     ELSE Returned([type |-> type,
                    page_content |-> document.page_content,
                    metadata |-> document.metadata])

langchain_document2information_piece(document) ==
  LET type == Get(document.metadata, "type")
  IN IF type \notin ContentTypes THEN Raised("ValueError")
     ELSE IF MissingKey(type, document.metadata) # "None"
       THEN Raised("ValueError")
     ELSE Returned([type |-> type,
                    page_content |-> document.page_content,
                    metadata |-> document.metadata])

\* the double mapping of test_mapping and test_image_mapping
double_mapped(a) ==
  IF a.start = "piece"
    THEN LET mapped_langchain_doc == information_piece2langchain_document(a.value)
         IN IF mapped_langchain_doc.raised # "none" THEN mapped_langchain_doc
            ELSE langchain_document2information_piece(mapped_langchain_doc.value)
    ELSE LET mapped_source_doc == langchain_document2information_piece(a.value)
         IN IF mapped_source_doc.raised # "none" THEN mapped_source_doc
            ELSE information_piece2langchain_document(mapped_source_doc.value)

InformationPieces ==
  [type : ContentTypes, page_content : PageContents,
   metadata : SeqsUpTo(KeyValuePairs, MaxPairs)]

\* a Document holds its metadata in a dict
Documents ==
  [page_content : PageContents,
   metadata : {m \in SeqsUpTo(KeyValuePairs, MaxPairs) : UniqueKeys(m)}]

MapperInit ==
  /\ Constructed
  /\ \/ args \in [start : {"piece"}, value : InformationPieces]
     \/ args \in [start : {"document"}, value : Documents]

MapperNext == Apply("double_mapped", double_mapped(args))

MapperSpec == MapperInit /\ [][MapperNext]_vars

(***************************************************************************)
(* ConfluenceSettings.check_lists_length_consistency                       *)
(***************************************************************************)
MaxUrls == 2

\* the lists that have to be as long as url, and the optional ones with the
\* defaults of lines 117-189
required_keys == {"token", "space_key"}
optional_keys == {"document_name", "verify_ssl", "include_attachments",
                  "keep_markdown_format", "keep_newlines", "max_pages"}

Default(key) ==
  CASE key = "max_pages"            -> "0"
    [] key = "document_name"        -> ""
    [] key = "verify_ssl"           -> "True"
    [] key = "include_attachments"  -> "False"
    [] key = "keep_markdown_format" -> "True"
    [] key = "keep_newlines"        -> "True"

\* an entry read from the environment
Given == "given"

\* [x] * k: the empty list for k <= 0
Repeat(x, k) == [i \in 1..k |-> x]

\* one of the handlers of lines 114-189: an empty list becomes n defaults, a
\* list of another length has (n - len) defaults appended
Padded(list, key, n) ==
  IF Len(list) = 0 THEN Repeat(Default(key), n)
  ELSE IF Len(list) # n THEN list \o Repeat(Default(key), n - Len(list))
  ELSE list

\* lines 91-106: the reference length is that of url, the first key; lines
\* 108-191: the optional lists, when at least one URL is configured
check_lists_length_consistency(values) ==
  LET ref_length == Len(values.url)
  IN IF \E key \in required_keys : Len(values[key]) # ref_length
       THEN [raised |-> "ValueError", values |-> values]
     ELSE IF Len(values.url) > 0
       THEN [raised |-> "none",
             values |-> [key \in DOMAIN values |->
                           IF key \in optional_keys
                             THEN Padded(values[key], key, Len(values.url))
                             ELSE values[key]]]
     ELSE [raised |-> "none", values |-> values]

SettingsInit ==
  /\ Constructed
  /\ args \in [{"url"} \cup required_keys \cup optional_keys ->
                 SeqsUpTo({Given}, MaxUrls + 1)]
  /\ Len(args.url) <= MaxUrls

SettingsNext ==
  Apply("check_lists_length_consistency", check_lists_length_consistency(args))

SettingsSpec == SettingsInit /\ [][SettingsNext]_vars

(***************************************************************************)
(* DefaultInformationPiecesUploader.upload_information_piece with its      *)
(* UploadCounterKeyValueStore                                              *)
(***************************************************************************)
MaxCounter == 3

\* the value under STORAGE_KEY (DECRBY takes a missing key as 0) and under
\* FAILURE_STORAGE_KEY
Counters == 0..MaxCounter
Failures == {"None", "True"}

\* what vector_database.upload does with the documents
UploadOutcomes == {"ok", "ValueError", "Exception"}

\* UploadCounterKeyValueStore.subtract, lines 83-91: DECRBY in a pipeline; an
\* exception of execute() is logged
subtract(counter, redis_up) ==
  IF redis_up THEN counter - 1 ELSE counter

\* UploadCounterKeyValueStore.get, lines 102-104: two GETs, no handler
get(counter, failure, redis_up) ==
  IF redis_up THEN [raised |-> "none", remaining |-> counter, error |-> failure]
  ELSE [raised |-> "ConnectionError", remaining |-> 0, error |-> "None"]

\* upload_information_piece, lines 53-67: the mapper runs before the try;
\* inside it upload, subtract and get; ValueError is answered with 422, any
\* other exception with 500
upload_information_piece_response(a) ==
  IF ~a.valid
    THEN [status |-> 500, stored |-> FALSE, counter |-> a.counter]
  ELSE IF a.upload = "ValueError"
    THEN [status |-> 422, stored |-> FALSE, counter |-> a.counter]
  ELSE IF a.upload = "Exception"
    THEN [status |-> 500, stored |-> FALSE, counter |-> a.counter]
  ELSE LET counter == subtract(a.counter, a.redis_up_at_subtract)
           got == get(counter, a.failure, a.redis_up_at_get)
       IN [status |-> IF got.raised = "none" THEN 200 ELSE 500,
           stored |-> TRUE,
           counter |-> counter]

UploaderInit ==
  /\ Constructed
  /\ args \in [valid : BOOLEAN, upload : UploadOutcomes,
               counter : Counters, failure : Failures,
               redis_up_at_subtract : BOOLEAN, redis_up_at_get : BOOLEAN]

UploaderNext ==
  Apply("upload_information_piece", upload_information_piece_response(args))

UploaderSpec == UploaderInit /\ [][UploaderNext]_vars

(***************************************************************************)
(* Properties of the admin side                                            *)
(***************************************************************************)
\* the pipeline of operation o has been started and has not finished
Running(o) == tpc[o] \notin {"none", "done"}

\* the statuses operation o has written, in order
Statuses(o) == [i \in DOMAIN writes[o] |-> writes[o][i].st]

IsPrefix(a, b) == Len(a) <= Len(b) /\ \A i \in 1..Len(a) : a[i] = b[i]

\* PROCESSING -> (UPLOADING ->)? READY | ERROR
StatusOrders ==
  { <<"PROCESSING", "READY">>, <<"PROCESSING", "ERROR">>,
    <<"PROCESSING", "UPLOADING", "READY">>, <<"PROCESSING", "UPLOADING", "ERROR">> }

\* C1: uploads of the same source_name are mutually exclusive: no two
\* background pipelines started by upload_source for one source_name are
\* both started and not yet finished.
C1_MutuallyExclusive ==
  \A o1, o2 \in Ops :
    (o1 # o2 /\ kind[o1] = "source" /\ kind[o2] = "source" /\ src[o1] = src[o2])
      => ~(Running(o1) /\ Running(o2))

\* C2: an upload_source call that finds its source PROCESSING is rejected,
\* spawns no background pipeline and does not change the stored status.
C2_RejectionKeepsStatus ==
  [][\A o \in Ops :
       (hpc[o] = "idle" /\ hpc'[o] = "rejected" /\ kind'[o] = "source")
         => (tpc'[o] = "none" /\ status' = status)]_vars

\* C3: once the handler has written ERROR on timeout, raised the cancel
\* signal and returned, no step of that background task changes the status
\* of the source away from ERROR (a late completion never writes READY).
C3_LateCompletionKeepsError ==
  [][\A o \in Ops :
       (kind[o] = "source" /\ stop[o] /\ hpc[o] = "returned"
          /\ status[src[o]] = "ERROR" /\ tpc'[o] # tpc[o])
         => status'[src[o]] = "ERROR"]_vars

\* C4: a pipeline whose cancel signal has been raised performs no write to
\* the vector store afterwards: neither the prior-version delete nor the
\* upload is issued in a state where the signal is already set.
C4_NoStoreWriteAfterSignal ==
  \A o \in Ops :
    kind[o] = "source" =>
      \A i \in DOMAIN vsCalls[o] : ~vsCalls[o][i].signalled

\* C5: the status writes an upload operation (handler and pipeline) makes
\* for its source_name are a prefix of PROCESSING, optionally UPLOADING,
\* then exactly one of READY or ERROR; nothing follows a READY or ERROR.
C5_WritesArePrefix ==
  \A o \in Ops :
    (kind[o] = "source" /\ tpc[o] # "none") =>
      \E order \in StatusOrders : IsPrefix(Statuses(o), order)

\* C6: within one pipeline PROCESSING is written before any other status of
\* the source, and READY is written only after the vector-store upload call
\* of that same pipeline has returned without error.
C6_ProcessingFirstReadyAfterUpload ==
  \A o \in Ops :
    tpc[o] # "none" =>
      /\ Len(writes[o]) > 0 => writes[o][1].st = "PROCESSING"
      /\ (\E i \in DOMAIN writes[o] : writes[o][i].st = "READY")
           => /\ uploadOk[o]
              /\ \E j \in DOMAIN vsCalls[o] : vsCalls[o][j].call = "upload"

\* C6 witness: a source pipeline and a Confluence pipeline have both written
\* READY after their upload returned
C6_Witness ==
  /\ \E o \in Ops : kind[o] = "source" /\ uploadOk[o] /\ tpc[o] = "done"
                      /\ writes[o][Len(writes[o])].st = "READY"
  /\ \E o \in Ops : kind[o] = "confluence" /\ uploadOk[o] /\ tpc[o] = "done"
                      /\ writes[o][Len(writes[o])].st = "READY"

\* C21: when extraction returns no information pieces, the pipeline (of a
\* source upload or of a file upload) has written ERROR and has returned: it
\* has called neither the mapper nor the vector-store upload, and it has
\* written no READY.
C21_EmptyExtractionEndsPipeline ==
  \A o \in Ops :
    (kind[o] \in {"source", "file"} /\ pieces[o] = "empty") =>
      /\ \E i \in DOMAIN writes[o] : writes[o][i] = [by |-> "task", st |-> "ERROR"]
      /\ tpc[o] \in {"ret", "done"}
      /\ ~mapped[o]
      /\ \A j \in DOMAIN vsCalls[o] : vsCalls[o][j].call # "upload"
      /\ \A i \in DOMAIN writes[o] : writes[o][i].st # "READY"

\* the positions at which the pipeline calls _ensure_not_cancelled
Checkpoints == {"map", "chunk", "enhance", "torag", "chk5"}

\* the number of ERROR upserts operation o has made
ErrorWrites(w) == Cardinality({i \in DOMAIN w : w[i].st = "ERROR"})

\* C22: once the cancel signal of a pipeline is set, its task leaves at the
\* next step boundary without any write to the status store, so that the
\* ERROR of the timeout has been written exactly once by the operation.
C22_CancelledTaskWritesNothing ==
  [][\A o \in Ops :
       (kind[o] = "source" /\ stop[o] /\ tpc[o] \in Checkpoints /\ tpc'[o] # tpc[o])
         => /\ tpc'[o] = "ret"
            /\ writes'[o] = writes[o]
            /\ ErrorWrites(writes'[o]) = 1]_vars

\* the vector-store calls of the given kind operation o has issued
Calls(c, call) == Cardinality({j \in DOMAIN c : c[j].call = call})

\* C23: in every pipeline variant the prior-version delete is attempted once
\* and, whatever its outcome, the pipeline proceeds to the upload; when the
\* upload succeeds the pipeline writes READY.  Hence a pipeline that has
\* returned without any ERROR has made one delete and one upload call.
C23_DeleteFailureIsSwallowed ==
  [][\A o \in Ops :
       /\ (tpc'[o] \in {"ret", "done"} /\ ErrorWrites(writes'[o]) = 0)
            => /\ Calls(vsCalls'[o], "delete") = 1
               /\ Calls(vsCalls'[o], "upload") = 1
       /\ (tpc[o] \in {"delete", "cdelete"} /\ tpc'[o] # tpc[o])
            => /\ tpc'[o] \in {"upload", "cupload"}
               /\ Calls(vsCalls'[o], "delete") = 1
       /\ (tpc[o] \in {"upload", "cupload"} /\ tpc'[o] # tpc[o] /\ uploadOk'[o])
            => \/ tpc'[o] = "ready"
               \/ writes'[o][Len(writes'[o])] = [by |-> "task", st |-> "READY"]
       /\ (tpc[o] = "ready" /\ tpc'[o] # tpc[o])
            => writes'[o][Len(writes'[o])] = [by |-> "task", st |-> "READY"]]_vars

\* the Confluence background runs (load or update) that are alive
ConfluenceRuns == {o \in Ops : kind[o] \in {"confluence", "update"} /\ Running(o)}

\* C29: while a Confluence background run is alive every further Confluence
\* load or update request is rejected and starts no thread: at most one
\* Confluence background run is alive at any time.
C29_OneConfluenceRunAtATime ==
  /\ Cardinality(ConfluenceRuns) <= 1
  /\ \A o \in Ops :
       (kind[o] \in {"confluence", "update"} /\ hpc[o] = "rejected") => tpc[o] = "none"

\* C30: an upload requested for a source whose status is PROCESSING raises
\* an HTTP exception and upserts ERROR for that source.
C30_UploadWhileProcessingIsRejected ==
  [][\A o \in Ops :
       (hpc[o] = "idle" /\ hpc'[o] # "idle" /\ kind'[o] \in {"source", "file"}
          /\ status[src'[o]] = "PROCESSING")
         => /\ hpc'[o] = "rejected"
            /\ status'[src'[o]] = "ERROR"]_vars

\* the position at which a piece with the given id is first retrieved
FirstSeen(retrieved, id) ==
  CHOOSE k \in DOMAIN retrieved :
    retrieved[k].id = id /\ \A j \in 1..(k - 1) : retrieved[j].id # id

\* C24: a retrieval response holds no piece of type SUMMARY and holds each
\* metadata.id at most once, the pieces in the order in which they were first
\* retrieved; this also when a related neighbour is a SUMMARY or was already
\* a direct hit.
C24_ResponseWithoutSummariesOrDuplicates ==
  (fn = "search" /\ result.status = 200) =>
    LET docs == result.documents
        retrieved == Retrieved(args)
    IN /\ \A i \in DOMAIN docs : docs[i].type # "SUMMARY"
       /\ \A i, j \in DOMAIN docs : i # j => docs[i].id # docs[j].id
       /\ \A i \in DOMAIN docs : docs[i] \in Range(retrieved)
       /\ \A i, j \in DOMAIN docs :
            i < j => FirstSeen(retrieved, docs[i].id) < FirstSeen(retrieved, docs[j].id)

\* C24 witness: a response to a search in which the neighbour of one hit is
\* a SUMMARY and the neighbour of another hit is itself a direct hit
C24_Witness ==
  /\ fn = "search"
  /\ result.status = 200
  /\ Len(result.documents) >= 2
  /\ \E q \in Quarks : \E h \in Range(args.hits[q]) :
       \E r \in Range(args.corpus[h].related) : args.corpus[r].type = "SUMMARY"
  /\ \E q, p \in Quarks : \E h \in Range(args.hits[q]) :
       /\ args.corpus[h].type = "TEXT"
       /\ \E r \in Range(args.corpus[h].related) :
            r # h /\ r \in Range(args.hits[p]) /\ args.corpus[r].type = "TEXT"

\* C25: a search whose hits are empty, or are empty once the SUMMARY pieces
\* are dropped, is answered with an empty list and a success status.
C25_EmptySearchSucceeds ==
  (fn = "search" /\ RemoveSummaries(Retrieved(args)) = << >>)
    => result = [status |-> 200, documents |-> << >>]

C27_NoSelfReferenceUploaded ==
  fn = "_handle_source_upload" =>
    \A i \in DOMAIN result.pieces :
      result.pieces[i].id \notin Range(result.pieces[i].related)

TypeOf(a) ==
  IF a.start = "piece" THEN a.value.type ELSE Get(a.value.metadata, "type")

\* a piece or document of the data model, as far as the mapper looks at it
Valid(a) ==
  LET metadata == a.value.metadata
      type == TypeOf(a)
  IN /\ UniqueKeys(metadata)
     /\ type \in ContentTypes
     /\ "document" \in Keys(metadata)
     /\ "type" \in Keys(metadata) => Get(metadata, "type") = type
     /\ MissingKey(type, metadata) = "None"

ComparedKeys(type) ==
  {"document"}
    \cup (IF type \in {"TEXT", "TABLE"} THEN {DOCUMENT_URL_KEY} ELSE {})
    \cup (IF type = "IMAGE" THEN {IMAGE_CONTENT_KEY} ELSE {})

C31_FailedStoreStartsNoPipeline ==
  \A o \in Ops :
    (kind[o] = "file"
       /\ \E i \in DOMAIN writes[o] : writes[o][i] = [by |-> "handler", st |-> "ERROR"])
      => /\ tpc[o] = "none"
         /\ \A i \in DOMAIN writes[o] : writes[o][i].st # "READY"

\* the positions of the calls of the given kind among the vector-store calls
Positions(c, call) == {j \in DOMAIN c : c[j].call = call}

\* C32: a Confluence update calls duplicate_collection before any delete or
\* upload and switch_collection after every upload; a run whose extraction
\* succeeded and in which no upload failed has ended with exactly one
\* switch_collection call and with READY written for its source.
C32_UpdateFollowsRolloutOrder ==
  \A o \in Ops :
    kind[o] = "update" =>
      LET c == vsCalls[o]
      IN /\ \A j \in Positions(c, "delete") \cup Positions(c, "upload") :
              \E i \in Positions(c, "duplicate") : i < j
         /\ \A j \in Positions(c, "switch") :
              \A i \in Positions(c, "upload") : i < j
         /\ (tpc[o] \in {"ret", "done"} /\ pieces[o] # "unset"
               /\ ErrorWrites(writes[o]) = 0)
              => /\ Calls(c, "switch") = 1
                 /\ writes[o][Len(writes[o])] = [by |-> "task", st |-> "READY"]

\* C33: with at least one URL configured, validation fails unless url, token
\* and space_key have the same length, and after validation every optional
\* list has exactly len(url) entries: the given ones, then the defaults.
C33_ListsAsLongAsUrl ==
  (fn = "check_lists_length_consistency" /\ Len(args.url) > 0) =>
     LET n == Len(args.url)
     IN /\ (\E key \in required_keys : Len(args[key]) # n)
             => result.raised = "ValueError"
        /\ result.raised = "none" =>
             \A key \in optional_keys :
               /\ Len(result.values[key]) = n
               /\ \A i \in 1..n :
                    result.values[key][i] =
                      IF i <= Len(args[key]) THEN args[key][i] ELSE Default(key)

\* C34: no pipeline (source, file, Confluence load or update) finishes while
\* the last status its operation has written is PROCESSING or UPLOADING: an
\* operation that has written PROCESSING and whose pipeline is done has
\* written READY or ERROR last.
C34_FinishedPipelineLeftTerminalStatus ==
  \A o \in Ops :
    (tpc[o] = "done"
       /\ \E i \in DOMAIN writes[o] : writes[o][i].st = "PROCESSING")
      => writes[o][Len(writes[o])].st \in Terminal

C38_EarlierPipelineDoesNotOverwrite ==
  [][\A o, p \in Ops :
       (o < p /\ kind[o] = "source" /\ kind[p] = "source" /\ src[o] = src[p]
          /\ hpc[o] = "returned" /\ tpc[p] # "none" /\ writes[p] # << >>)
         => \/ writes'[o] = writes[o]
            \/ writes'[o][Len(writes'[o])].by # "task"]_vars

(***************************************************************************)
(* Properties of the RAG side                                              *)
(***************************************************************************)
\* C7: eviction never deletes the snapshot that currently bears the alias:
\* every collection _cleanup_old_collections deletes is one the alias does
\* not point to at the moment of deletion.
C7_EvictionSparesAliased ==
  [][\A w \in Workers :
       (rpc[w] = "sw_evict" /\ rl'[w] # rl[w])
         => Head(rl[w].sorted) \notin aliases]_vars

\* C8: from the first successful upload onward the alias is bound to exactly
\* one snapshot and that snapshot exists in the vector store.
C8_AliasBoundToExistingSnapshot ==
  everUploaded => (Cardinality(aliases) = 1 /\ aliases \subseteq collections)

C10_ReadsServedFromAlias ==
  [][\A w \in Workers :
       (Quiescent /\ rpc'[w] = "read" /\ rl'[w].target # NoTarget)
         => rl'[w].target \in aliases]_vars

\* C11: an upload requested with use_latest_collection = true addresses, and
\* so writes its pieces into, the snapshot with the greatest timestamp, never
\* the aliased snapshot when the two differ; with use_latest_collection false
\* it addresses the aliased snapshot.
C11_UploadHonoursUseLatest ==
  [][\A w \in Workers, doc \in Docs :
       /\ (upload_information_piece(w, doc, TRUE) /\ collections # {})
            => rl'[w].target = Last(get_sorted_collection_names)
       /\ (upload_information_piece(w, doc, FALSE) /\ aliases # {})
            => rl'[w].target \in aliases]_vars

\* C12: rolling update: from one aliased snapshot, after Duplicate, an upload
\* of a new piece addressed to the latest snapshot, and Switch, the alias
\* points at the duplicated, newer snapshot, every read is served from it and
\* finds the new piece, and with collection_history_count = 1 the previously
\* aliased snapshot no longer exists.
C12_RollingUpdate ==
  \A w \in Workers :
    rpc[w] = "read" =>
      /\ aliases = {Last(get_sorted_collection_names)}
      /\ rl[w].target \in aliases
      /\ NewPiece \in points[rl[w].target]
      /\ historyCount = 1 => collections = aliases

\* C12 witness: a read after the rolling update with collection_history_count
\* = 1 finds the new piece in the only snapshot left
C12_Witness ==
  \E w \in Workers :
    /\ rpc[w] = "read"
    /\ historyCount = 1
    /\ rl[w].target \in aliases
    /\ NewPiece \in points[rl[w].target]
    /\ collections = aliases

C14_DuplicateAddsOneCopy ==
  [][\A w \in Workers :
       (rpc[w] = "dup_create" /\ collections' # collections)
         => /\ rl[w].target \notin collections
            /\ rl[w].target <= now
            /\ collections' = collections \cup {rl[w].target}
            /\ aliases = rl[w].aoi
            /\ points'[rl[w].target] = points[FirstOf(aliases)]
            /\ aliases' = aliases
            /\ \A c \in collections : points'[c] = points[c]]_vars

\* C14 witness: a Duplicate has resolved a non-empty aliased snapshot and a
\* free target name and is about to create the copy
C14_Witness ==
  \E w \in Workers :
    /\ rpc[w] = "dup_create"
    /\ rl[w].aoi = aliases
    /\ FirstOf(rl[w].aoi) \in collections
    /\ points[FirstOf(rl[w].aoi)] # {}
    /\ rl[w].target \notin collections

C17_SwitchOnLatestIsNoOp ==
  [][\A w \in Workers :
       /\ ( /\ rpc[w] = "sw_alias"
            /\ rpc'[w] # rpc[w]
            /\ rl[w].target \in aliases
            /\ rl[w].target = Last(get_sorted_collection_names) )
            => (aliases' = aliases /\ collections' = collections)
       /\ ( /\ rpc[w] \in {"sw_cleanup", "sw_evict"}
            /\ <<rpc'[w], rl'[w]>> # <<rpc[w], rl[w]>>
            /\ rl[w].target \in rl[w].aoi
            /\ rl[w].target = Last(get_sorted_collection_names) )
            => (aliases' = aliases /\ collections' = collections)]_vars

\* C18: an upload without a collection name creates, when no alias exists,
\* exactly one new snapshot named after the current second, writes the
\* documents into it and binds the alias to it; when an alias exists it
\* writes into the aliased snapshot, creates no snapshot and leaves the alias
\* as it is.  An upload with a collection name never creates or moves the alias.
C18_UploadTargetAndAlias ==
  [][\A w \in Workers :
       /\ (rpc[w] = "up_write" /\ rpc'[w] # rpc[w] /\ ~rl[w].named /\ rl[w].aoi = {})
            => /\ aliases' = aliases
               /\ \/ UNCHANGED <<collections, points>>
                  \/ /\ rl[w].target \notin collections
                     /\ rl[w].target <= now
                     /\ collections' = collections \cup {rl[w].target}
                     /\ points' = [points EXCEPT ![rl[w].target] = {rl[w].doc}]
       /\ (rpc[w] = "up_alias" /\ rpc'[w] # rpc[w] /\ ~rl[w].named)
            => aliases' = {rl[w].target}
       /\ (rpc[w] = "up_write" /\ rpc'[w] # rpc[w] /\ ~rl[w].named /\ rl[w].aoi # {})
            => /\ aliases' = aliases
               /\ collections' = collections
               /\ rl[w].target \in aliases
               /\ \/ UNCHANGED points
                  \/ points' = [points EXCEPT ![rl[w].target] = @ \cup {rl[w].doc}]
       /\ (rpc[w] \in {"up_write", "up_alias"} /\ rpc'[w] # rpc[w] /\ rl[w].named)
            => aliases' = aliases]_vars

\* C19: Remove resolves the snapshot with the greatest timestamp when
\* use_latest_collection is true and the aliased snapshot otherwise, and
\* deletes from that snapshot only, and there exactly the pieces whose
\* metadata equal every key/value of the filter; non-matching pieces and all
\* other snapshots are retained.
C19_RemoveDeletesMatchingOnly ==
  [][\A w \in Workers :
       /\ (rpc[w] = "idle" /\ rpc'[w] = "del_points")
            => /\ delete_resolve(w, rl'[w].filter, TRUE, TRUE)
                    => rl'[w].target = Last(get_sorted_collection_names)
               /\ delete_resolve(w, rl'[w].filter, TRUE, FALSE)
                    => rl'[w].target \in aliases
       /\ (rpc[w] = "del_points" /\ rpc'[w] # rpc[w])
            => /\ collections' = collections
               /\ aliases' = aliases
               /\ \A c \in Times \ {rl[w].target} : points'[c] = points[c]
               /\ \A d \in Docs :
                    d \in points'[rl[w].target]
                      <=> /\ d \in points[rl[w].target]
                          /\ \E kv \in rl[w].filter : Metadata(d)[kv[1]] # kv[2]]_vars

\* C19 witness: a Remove is about to delete from a snapshot that holds a
\* piece matching the whole filter and a piece matching only part of it,
\* while another snapshot holds pieces too
C19_Witness ==
  \E w \in Workers :
    /\ rpc[w] = "del_points"
    /\ rl[w].target \in collections
    /\ \E d \in points[rl[w].target] : Matches(d, rl[w].filter)
    /\ \E d \in points[rl[w].target] :
         ~Matches(d, rl[w].filter) /\ MatchesAny(d, rl[w].filter)
    /\ \E c \in collections \ {rl[w].target} : points[c] # {}

C36_DeleteAndUploadSameSnapshot ==
  \A w \in Workers :
    rpc[w] = "pl_ready" =>
      /\ rl[w].deleted \in {NoTarget, rl[w].target}
      /\ rl[w].doc \in points[rl[w].target]


\* C37: once the overlapping uploads have returned, every piece that was
\* stored is in the snapshot the alias points to: no uploaded piece is in a
\* snapshot without the alias only.
C37_UploadedPiecesAreAliased ==
  Quiescent =>
    \A c \in collections : \A d \in points[c] :
      \E a \in aliases : d \in points[a]


\* C39: when the vector-store upload of an upload request has succeeded the
\* request answers with success, whatever the upload-counter store does
\* afterwards.
C39_StoredUploadAnswersSuccess ==
  (fn = "upload_information_piece" /\ result.stored) => result.status = 200


\* C40: a Duplicate, and an Upload that finds no alias, either creates a
\* snapshot under a name no existing snapshot bears and leaves the existing
\* snapshots as they are, or changes no snapshot at all; a Duplicate whose
\* target name is taken, as in the second its source was created in, changes
\* nothing.
C40_SnapshotNamesNotReused ==
  [][\A w \in Workers :
       /\ (rpc[w] = "dup_create" /\ rpc'[w] # rpc[w])
            => \/ /\ rl[w].target \notin collections
                  /\ collections' = collections \cup {rl[w].target}
                  /\ \A c \in collections : points'[c] = points[c]
               \/ UNCHANGED <<collections, points, aliases>>
       /\ (rpc[w] = "dup_create" /\ rpc'[w] # rpc[w]
             /\ rl[w].target \in collections)
            => UNCHANGED <<collections, points, aliases>>
       /\ (rpc[w] = "up_write" /\ rpc'[w] # rpc[w]
             /\ rl[w].aoi = {} /\ ~rl[w].named)
            => \/ /\ rl[w].target \notin collections
                  /\ collections' = collections \cup {rl[w].target}
                  /\ \A c \in collections : points'[c] = points[c]
               \/ UNCHANGED <<collections, points, aliases>>]_vars

====
